---- MODULE Spec2Model ----
(***************************************************************************)
(* Retrieval core of metabox: HybridRetriever, Reranker, MultiQueryExpander,*)
(* MetadataFilter, EnhancedRetrievalPipeline, RetrievalExecutor and        *)
(* IntelligentRetrievalService, as cooperative (asyncio) tasks that switch *)
(* only at awaits of external backends.                                    *)
(*                                                                         *)
(* Scores are fixed-point numbers in units of 1/Scale.  Strings are        *)
(* sequences of atoms (a word, a CJK word, or the blank " ").              *)
(***************************************************************************)
EXTENDS Integers, Sequences, FiniteSets, TLC

\* ------------------------------------------------------------------ bounds
\* concurrent requests
NumTasks == 2

\* injected stage / step failures per request
MaxFaults == 1

\* distinct result lists each backend may answer with
MaxAnswers == 2

\* calls of the config endpoint
MaxConfigUpdates == 1

\* fixed-point unit of every score: 1.0 is Scale; weights are in tenths
Scale == 12 * 1000

\* ------------------------------------------------------------- sequences
Min2(a, b) == IF a <= b THEN a ELSE b

Max2(a, b) == IF a >= b THEN a ELSE b

RECURSIVE SumSeq(_)
SumSeq(s) == IF s = <<>> THEN 0 ELSE Head(s) + SumSeq(Tail(s))

RECURSIVE MaxSeq(_)
MaxSeq(s) == IF Len(s) = 1 THEN s[1] ELSE Max2(Head(s), MaxSeq(Tail(s)))

RECURSIVE Flatten(_)
Flatten(ss) == IF ss = <<>> THEN <<>> ELSE Head(ss) \o Flatten(Tail(ss))

Range(s) == {s[i] : i \in DOMAIN s}

\* Python s[:k]: the first k items; a negative k drops the last -k items
PySlice(s, k) ==
    IF k >= 0 THEN SubSeq(s, 1, Min2(k, Len(s)))
    ELSE SubSeq(s, 1, Max2(Len(s) + k, 0))

\* Python list.sort(key, reverse=True) / sorted(..., reverse=True): stable,
\* equal keys keep their input order.  key(x) is given as the sequence ks.
InsertDesc(out, outKeys, x, k) ==
    \* the pair <<items, keys>> with x placed after every item whose key >= k
    LET pos == IF \A i \in DOMAIN outKeys : outKeys[i] >= k THEN Len(out)
               ELSE (CHOOSE i \in DOMAIN outKeys :
                        outKeys[i] < k /\ \A j \in 1..(i-1) : outKeys[j] >= k) - 1
    IN  << SubSeq(out, 1, pos) \o <<x>> \o SubSeq(out, pos + 1, Len(out)),
           SubSeq(outKeys, 1, pos) \o <<k>> \o SubSeq(outKeys, pos + 1, Len(outKeys)) >>

RECURSIVE SortDescAcc(_, _, _)
SortDescAcc(acc, items, keys) ==
    IF items = <<>> THEN acc[1]
    ELSE SortDescAcc(InsertDesc(acc[1], acc[2], Head(items), Head(keys)),
                     Tail(items), Tail(keys))

SortDesc(items, keys) == SortDescAcc(<< <<>>, <<>> >>, items, keys)

\* ------------------------------------------------------------- documents
\* A document is [id, content, score, source, meta, hasFused, fused]; the
\* optional key "fused_score" is the pair hasFused/fused.  source_file and
\* knowledge_base_id are copied through every stage unread and are left out.
\* meta: created (a created_at or updated_at is present), source_type,
\* quality_score and source_quality (Absent when the key is missing, NotANumber
\* when the value is no number), position, total_positions, tags (a list of
\* strings, or None when the key is missing).
Absent == 0 - 1

NotANumber == 0 - 2

\* A Python value read from metadata or given as a condition's value: None, a
\* number, a string (its atoms), a list of strings, or the dict of a date range
PyNone == [t |-> "none", v |-> 0]

PyNum(n) == [t |-> "num", v |-> n]

PyStr(s) == [t |-> "str", v |-> s]

PyList(l) == [t |-> "list", v |-> l]

\* {"start": ..., "end": ...}; an empty string is a key left out
PyRange(start, end) == [t |-> "dict", v |-> [start |-> start, end |-> end]]

\* a == b
PyEq(a, b) == a.t = b.t /\ a.v = b.v

\* x in l
PyIn(x, l) == \E i \in DOMAIN l : PyEq(x, l[i])

NoMeta == [created |-> FALSE, source_type |-> "", quality_score |-> Absent,
           source_quality |-> Absent, position |-> 0, total_positions |-> 1,
           tags |-> PyNone]

Raw(id, content, score, meta) ==
    [id |-> id, content |-> content, score |-> score, meta |-> meta]

WrapResult(r, source) ==
    [id |-> r.id, content |-> r.content, score |-> r.score, source |-> source,
     meta |-> r.meta, hasFused |-> FALSE, fused |-> 0]

WrapAll(rs, source) == [i \in DOMAIN rs |-> WrapResult(rs[i], source)]

\* x.get("fused_score", x["score"])
FusedKey(d) == IF d.hasFused THEN d.fused ELSE d.score

HasId(list, id) == \E i \in DOMAIN list : list[i].id = id

FirstIdx(list, id) == CHOOSE i \in DOMAIN list :
    list[i].id = id /\ \A j \in 1..(i-1) : list[j].id # id

LastIdx(list, id) == CHOOSE i \in DOMAIN list :
    list[i].id = id /\ \A j \in (i+1)..Len(list) : list[j].id # id

RECURSIVE IdsInOrderAcc(_, _)
IdsInOrderAcc(acc, list) ==
    IF list = <<>> THEN acc
    ELSE IdsInOrderAcc(IF Head(list).id \in Range(acc) THEN acc
                       ELSE Append(acc, Head(list).id), Tail(list))

\* insertion order of the keys of a dict filled from list, then from more
IdsInOrder(list) == IdsInOrderAcc(<<>>, list)

\* --------------------------------------------------------- HybridRetriever
FusionStrategies ==
    {"weighted_sum", "reciprocal_rank", "comb_sum", "comb_mnz", "borda_count"}

DefaultWeights == [vector |-> 7, keyword |-> 3]

\* __init__: weights or the default, divided by their sum when it is positive
NormalizeWeights(w) ==
    LET total == w.vector + w.keyword
    IN  IF total > 0
        THEN [vector |-> (w.vector * 10) \div total,
              keyword |-> (w.keyword * 10) \div total]
        ELSE w

\* a weights argument is [present, vector, keyword]; present = FALSE is None
NoWeights == [present |-> FALSE, vector |-> 0, keyword |-> 0]

GivenWeights(v, k) == [present |-> TRUE, vector |-> v, keyword |-> k]

InitWeights(given) ==
    NormalizeWeights(IF given.present
                     THEN [vector |-> given.vector, keyword |-> given.keyword]
                     ELSE DefaultWeights)

\* the entry doc_scores[id]["doc"]: the last vector result with the id, else
\* the first keyword result with it
FusionDoc(vr, kr, id) ==
    IF HasId(vr, id) THEN vr[LastIdx(vr, id)] ELSE kr[FirstIdx(kr, id)]

\* the merged list of every fusion: one entry per id, in dict insertion
\* order, carrying fused_score = vside*w_v + kside*w_k
FuseWith(vr, kr, w, VSide(_), KSide(_)) ==
    LET ids == IdsInOrder(vr \o kr)
    IN  [i \in DOMAIN ids |->
            [FusionDoc(vr, kr, ids[i]) EXCEPT
                !.hasFused = TRUE,
                !.fused = (VSide(ids[i]) * w.vector
                           + KSide(ids[i]) * w.keyword) \div 10]]

SideScore(list, id) == IF HasId(list, id) THEN list[LastIdx(list, id)].score ELSE 0

WeightedSumFusion(vr, kr, w) ==
    LET V(id) == SideScore(vr, id)
        K(id) == SideScore(kr, id)
    IN  FuseWith(vr, kr, w, V, K)

\* 1.0 / rank, the rank of an absent side being float('inf')
Reciprocal(list, id) == IF HasId(list, id) THEN Scale \div LastIdx(list, id) ELSE 0

ReciprocalRankFusion(vr, kr, w) ==
    LET V(id) == Reciprocal(vr, id)
        K(id) == Reciprocal(kr, id)
    IN  FuseWith(vr, kr, w, V, K)

CombSumFusion(vr, kr, w) == WeightedSumFusion(vr, kr, w)

MaxScore(list) == IF list = <<>> THEN Scale ELSE MaxSeq([i \in DOMAIN list |-> list[i].score])

\* raises ZeroDivisionError when a source's maximum score is 0
CombMnzRaises(vr, kr) == MaxScore(vr) = 0 \/ MaxScore(kr) = 0

NormScore(list, id) ==
    IF HasId(list, id) THEN (list[LastIdx(list, id)].score * Scale) \div MaxScore(list)
    ELSE 0

CombMnzFusion(vr, kr, w) ==
    LET V(id) == NormScore(vr, id)
        K(id) == NormScore(kr, id)
    IN  FuseWith(vr, kr, w, V, K)

\* max_rank - rank for the 1-based rank of the id's last occurrence
BordaScoreOneBased(list, id, maxRank) ==
    IF HasId(list, id) THEN (maxRank - LastIdx(list, id)) * Scale ELSE 0

\* max_rank - i for the 0-based position i of the id's last occurrence
BordaScore(list, id, maxRank) ==
    IF HasId(list, id) THEN (maxRank - (LastIdx(list, id) - 1)) * Scale ELSE 0

BordaCountFusion(vr, kr, w) ==
    LET maxRank == Max2(Len(vr), Len(kr))
        V(id) == BordaScore(vr, id, maxRank)
        K(id) == BordaScore(kr, id, maxRank)
    IN  FuseWith(vr, kr, w, V, K)

MergeRaises(vr, kr, fusion) == fusion = "comb_mnz" /\ CombMnzRaises(vr, kr)

MergeResults(vr, kr, w, fusion) ==
    CASE fusion = "weighted_sum"    -> WeightedSumFusion(vr, kr, w)
      [] fusion = "reciprocal_rank" -> ReciprocalRankFusion(vr, kr, w)
      [] fusion = "comb_sum"        -> CombSumFusion(vr, kr, w)
      [] fusion = "comb_mnz"        -> CombMnzFusion(vr, kr, w)
      [] fusion = "borda_count"     -> BordaCountFusion(vr, kr, w)
      [] OTHER                      -> WeightedSumFusion(vr, kr, w)

\* variant: the first result of an id is kept whatever its score
UniqueDocsAccFirst(acc, rest) ==
    IF rest = <<>> THEN acc
    ELSE LET ids == IdsInOrder(acc \o rest)
             all == acc \o rest
         IN  [i \in DOMAIN ids |-> all[FirstIdx(all, ids[i])]]

\* unique_docs as the loop of _deduplicate_and_sort fills it: a later result
\* replaces the one kept for its id only when its score is higher
RECURSIVE UniqueDocsAcc(_, _)
UniqueDocsAcc(acc, rest) ==
    IF rest = <<>> THEN acc
    ELSE LET r == Head(rest)
         IN  UniqueDocsAcc(
                IF ~HasId(acc, r.id) THEN Append(acc, r)
                ELSE IF FusedKey(r) > FusedKey(acc[FirstIdx(acc, r.id)])
                     THEN [acc EXCEPT ![FirstIdx(acc, r.id)] = r]
                     ELSE acc,
                Tail(rest))

\* variant: no cut to top_k
DeduplicateAndSortUncut(results, top_k) ==
    LET u == UniqueDocsAcc(<<>>, results)
    IN  SortDesc(u, [i \in DOMAIN u |-> FusedKey(u[i])])

DeduplicateAndSort(results, top_k) ==
    LET u == UniqueDocsAcc(<<>>, results)
    IN  PySlice(SortDesc(u, [i \in DOMAIN u |-> FusedKey(u[i])]), top_k)

\* retrieve, after the gather: search_results holds the lists of the started
\* searches in task order (the vector search first when there is a vector
\* service).  Result i goes to vector_results when i = 0 and a vector service
\* exists, to keyword_results when i = 1 and a keyword service exists.
AttributeVector(searchResults, hasVector) ==
    IF Len(searchResults) >= 1 /\ hasVector THEN searchResults[1] ELSE <<>>

AttributeKeyword(searchResults, hasKeyword) ==
    IF Len(searchResults) >= 2 /\ hasKeyword THEN searchResults[2] ELSE <<>>

\* "merge" | "vector" | "keyword" | "empty": the branch of step 3
FusionBranch(vr, kr) ==
    IF vr # <<>> /\ kr # <<>> THEN "merge"
    ELSE IF vr # <<>> THEN "vector"
    ELSE IF kr # <<>> THEN "keyword"
    ELSE "empty"

\* the value retrieve returns when no exception reaches its handler
RetrieveResult(vr, kr, w, fusion, top_k) ==
    CASE FusionBranch(vr, kr) = "merge" ->
            DeduplicateAndSort(MergeResults(vr, kr, w, fusion), top_k)
      [] FusionBranch(vr, kr) = "vector"  -> DeduplicateAndSort(vr, top_k)
      [] FusionBranch(vr, kr) = "keyword" -> DeduplicateAndSort(kr, top_k)
      [] OTHER -> <<>>

\* ---------------------------------------------------------------- strings
\* str.lower(): the atoms are lower-case already, except these
LowerAtom(a) == IF a = "Python" THEN "python" ELSE a

Lower(s) == [i \in DOMAIN s |-> LowerAtom(s[i])]

\* whitespace atoms: the blank and the blank line
IsBlank(a) == a \in {" ", "<blank line>"}

RECURSIVE SplitAcc(_, _, _)
SplitAcc(words, cur, rest) ==
    IF rest = <<>> THEN (IF cur = <<>> THEN words ELSE Append(words, cur))
    ELSE IF IsBlank(Head(rest))
         THEN SplitAcc(IF cur = <<>> THEN words ELSE Append(words, cur), <<>>, Tail(rest))
         ELSE SplitAcc(words, Append(cur, Head(rest)), Tail(rest))

\* str.split(): the maximal runs of non-blank atoms
Split(s) == SplitAcc(<<>>, <<>>, s)

\* p in s
Contains(s, p) ==
    \E i \in 0..(Len(s) - Len(p)) : \A j \in DOMAIN p : s[i + j] = p[j]

RECURSIVE JoinBlank(_)
JoinBlank(words) ==
    IF words = <<>> THEN <<>>
    ELSE IF Len(words) = 1 THEN words[1]
    ELSE words[1] \o <<" ">> \o JoinBlank(Tail(words))

\* number of characters of an atom; "<long text>" stands for a passage
AtomLen(a) ==
    CASE a = "Python" \/ a = "python" -> 6
      [] a = "<long text>" -> 120
      [] a = "<fence>" -> 3
      [] a \in {" ", "?", "and", "or"} -> 1
      [] OTHER -> 2

StrLen(s) == SumSeq([i \in DOMAIN s |-> AtomLen(s[i])])

Count(list, x) == Cardinality({i \in DOMAIN list : list[i] = x})

\* ---------------------------------------------------------- QueryProcessor
\* the marker words of analyze_query_type, each CJK word an atom ("what", "is"
\* is the three-character marker of a definition question)
Markers(class) ==
    CASE class = "conceptual" ->
            {<<"what", "is">>, <<"define">>, <<"concept">>, <<"principle">>,
             <<"mechanism">>, <<"architecture">>, <<"introduce">>}
      [] class = "question" ->
            {<<"how">>, <<"why">>, <<"how2">>, <<"which">>, <<"where">>, <<"when">>,
             <<"who">>}
      [] class = "instruction" ->
            {<<"install">>, <<"configure">>, <<"setup">>, <<"run">>, <<"start">>,
             <<"stop">>, <<"restart">>}
      [] OTHER -> {}

\* any(word in query_lower for word in [...])
HasMarker(query, class) == \E word \in Markers(class) : Contains(Lower(query), word)

\* variant: the checks run in the order instruction, question, conceptual
AnalyzeQueryTypeInstructionFirst(query) ==
    IF HasMarker(query, "instruction") THEN "instruction"
    ELSE IF HasMarker(query, "question") THEN "question"
    ELSE IF HasMarker(query, "conceptual") THEN "conceptual"
    ELSE "factual"

\* QueryProcessor.analyze_query_type
AnalyzeQueryType(query) ==
    IF HasMarker(query, "conceptual") THEN "conceptual"
    ELSE IF HasMarker(query, "question") THEN "question"
    ELSE IF HasMarker(query, "instruction") THEN "instruction"
    ELSE "factual"

\* ---------------------------------------------------------------- Reranker
RerankStrategies == {"cross_encoder", "rule_based", "hybrid"}

RuleWeights ==
    [exact_match |-> 3, keyword_density |-> 2, length_penalty |-> 1,
     freshness |-> 1, source_quality |-> 1, position_bonus |-> 1,
     format_quality |-> 1]

\* order: list(query_words), the iteration order of the set of query words
PhraseBonus(order, content) ==
    LET n == Len(order)
        hits == {<<i, j>> \in (0..(n-1)) \X (1..n) :
                    j >= i + 1 /\ Contains(Lower(content), JoinBlank(SubSeq(order, i + 1, j)))}
    IN  Cardinality(hits) * (Scale \div 10)

CalculateExactMatch(query, content, order) ==
    LET qw == Range(Split(Lower(query)))
        cw == Range(Split(Lower(content)))
    IN  IF qw = {} THEN 0
        ELSE Min2(Scale, (Cardinality(qw \cap cw) * Scale) \div Cardinality(qw)
                         + PhraseBonus(order, content))

CalculateKeywordDensity(query, content) ==
    LET qw == Split(Lower(query))
        cw == Split(Lower(content))
        keyword_count == SumSeq([i \in DOMAIN qw |-> Count(cw, qw[i])])
    IN  IF cw = <<>> THEN 0
        ELSE Min2(Scale, (keyword_count * Scale * 10) \div Len(cw))

CalculateLengthPenalty(content) ==
    LET n == StrLen(content)
    IN  IF 100 <= n /\ n <= 1000 THEN Scale
        ELSE IF n < 50 THEN (3 * Scale) \div 10
        ELSE IF n > 2000 THEN (7 * Scale) \div 10
        ELSE IF n < 100 THEN (3 * Scale) \div 10 + ((n - 50) * 7 * Scale) \div 500
        ELSE Scale - ((n - 1000) * 3 * Scale) \div 10000

CalculateFreshness(meta) ==
    IF ~meta.created THEN (5 * Scale) \div 10 ELSE (8 * Scale) \div 10

\* tenths
QualityWeight(source_type) ==
    CASE source_type = "official_doc" -> 10
      [] source_type = "tutorial" -> 9
      [] source_type = "blog" -> 7
      [] source_type = "forum" -> 5
      [] source_type = "user_generated" -> 3
      [] OTHER -> 5

\* source_quality * weight raises TypeError when source_quality is no number
SourceQualityRaises(meta) == meta.source_quality = NotANumber

CalculateSourceQuality(meta) ==
    LET q == IF meta.source_quality = Absent THEN (5 * Scale) \div 10
             ELSE meta.source_quality
    IN  (q * QualityWeight(meta.source_type)) \div 10

CalculatePositionBonus(meta) ==
    IF meta.total_positions <= 1 THEN Scale
    ELSE Scale - (meta.position * Scale) \div meta.total_positions

\* the markers are atoms: a code fence, a list line, a heading line, a blank line
CalculateFormatQuality(content) ==
    LET has(a) == \E i \in DOMAIN content : content[i] = a
        tenths == 5 + (IF has("<fence>") \/ has("<code>") THEN 2 ELSE 0)
                    + (IF has("<list item>") THEN 1 ELSE 0)
                    + (IF has("<heading>") THEN 1 ELSE 0)
                    + (IF has("<blank line>") THEN 1 ELSE 0)
    IN  Min2(Scale, (tenths * Scale) \div 10)

RuleScore(query, doc, order) ==
    ( CalculateExactMatch(query, doc.content, order) * RuleWeights.exact_match
    + CalculateKeywordDensity(query, doc.content) * RuleWeights.keyword_density
    + CalculateLengthPenalty(doc.content) * RuleWeights.length_penalty
    + CalculateFreshness(doc.meta) * RuleWeights.freshness
    + CalculateSourceQuality(doc.meta) * RuleWeights.source_quality
    + CalculatePositionBonus(doc.meta) * RuleWeights.position_bonus
    + CalculateFormatQuality(doc.content) * RuleWeights.format_quality ) \div 10

\* variant: the two weights exchanged
CombineScoresSwapped(original_score, rerank_score) ==
    (original_score * 7 + rerank_score * 3) \div 10

\* original_score * 0.3 + rerank_score * 0.7
CombineScores(original_score, rerank_score) ==
    (original_score * 3 + rerank_score * 7) \div 10

RerankResult(doc, rerank_score, final_score, reason) ==
    [id |-> doc.id, content |-> doc.content, original_score |-> doc.score,
     rerank_score |-> rerank_score, final_score |-> final_score,
     meta |-> doc.meta, rerank_reason |-> reason]

SortByFinal(results) ==
    SortDesc(results, [i \in DOMAIN results |-> results[i].final_score])

RuleBasedRaises(documents) ==
    \E i \in DOMAIN documents : SourceQualityRaises(documents[i].meta)

\* variant: no cut to top_k
RuleBasedRerankUncut(query, documents, top_k, order) ==
    LET results == [i \in DOMAIN documents |->
            LET rule_score == RuleScore(query, documents[i], order)
            IN  RerankResult(documents[i], rule_score,
                             CombineScores(documents[i].score, rule_score),
                             "rule_based")]
    IN  SortByFinal(results)

RuleBasedRerank(query, documents, top_k, order) ==
    LET results == [i \in DOMAIN documents |->
            LET rule_score == RuleScore(query, documents[i], order)
            IN  RerankResult(documents[i], rule_score,
                             CombineScores(documents[i].score, rule_score),
                             "rule_based")]
    IN  PySlice(SortByFinal(results), top_k)

\* the cross-encoder branch once predict has returned scores
CrossEncoderResults(documents, scores, top_k) ==
    LET results == [i \in DOMAIN documents |->
            LET rerank_score == IF i <= Len(scores) THEN scores[i] ELSE 0
            IN  RerankResult(documents[i], rerank_score,
                             CombineScores(documents[i].score, rerank_score),
                             "cross_encoder")]
    IN  PySlice(SortByFinal(results), top_k)

\* _hybrid_rerank after predict has returned: the first top_k rule results
\* that have a score are re-scored in place; no re-sort follows
HybridRescore(rule_results, scores, top_k) ==
    LET head == PySlice(rule_results, top_k)
    IN  [i \in DOMAIN rule_results |->
            IF i <= Len(head) /\ i <= Len(scores)
            THEN LET rs == (rule_results[i].rerank_score + scores[i]) \div 2
                 IN  [rule_results[i] EXCEPT
                        !.rerank_score = rs,
                        !.final_score = CombineScores(rule_results[i].original_score, rs),
                        !.rerank_reason = "hybrid"]
            ELSE rule_results[i]]

FallbackRerank(documents, top_k) ==
    LET results == [i \in DOMAIN documents |->
            RerankResult(documents[i], documents[i].score, documents[i].score,
                         "fallback")]
    IN  PySlice(SortByFinal(results), top_k)

\* ============================================================ the program
\* env          what the environment may do (fixed by Init): how many requests
\*              it sends, whether a backend may stay silent for ever, which
\*              backends were passed to the constructors
\* loop         the task running on the event loop, 0 when every task is
\*              suspended at an await or idle
\* tasks        per request: its position (pc) and its local variables
\* retr         weights / fusion_strategy of the executor's HybridRetriever
\*              ("exec") and of the pipeline's own ("pipe")
\* pipe         EnhancedRetrievalPipeline.config, query_expander.expansion_count
\*              and reranker.strategy
\* pipeline_stats, stats   the aggregate counters of pipeline and service
\* updates      history: how many requests have started, how many PUT /config
\*              calls were made
\* call is the last direct call of a method that keeps no state (its arguments
\* and what it returned); the other variables are the services' state
VARIABLES call, env, loop, tasks, retr, pipe, pipeline_stats, stats, updates

vars == <<call, env, loop, tasks, retr, pipe, pipeline_stats, stats, updates>>

Tasks == 1..NumTasks

\* ------------------------------------------------------ backend answers
MetaA == [NoMeta EXCEPT !.quality_score = (8 * Scale) \div 10]

MetaC == [NoMeta EXCEPT !.created = TRUE, !.source_type = "official_doc",
                        !.source_quality = (8 * Scale) \div 10,
                        !.quality_score = (5 * Scale) \div 10]

MetaBad == [NoMeta EXCEPT !.source_quality = NotANumber]

DocA(score) == Raw("1", <<"Python", "install", "tutorial">>, score, MetaA)

DocB(score) == Raw("2", <<"plain", "doc">>, score, NoMeta)

DocC(score) == Raw("3", <<"<long text>", "<blank line>", "<fence>">>, score, MetaC)

DocBad(score) == Raw("4", <<"plain", "Python">>, score, MetaBad)

P(n) == (n * Scale) \div 10

\* the result lists a backend call may answer with, by backend
AllAnswers(backend) ==
    CASE backend = "vector" ->
            << <<DocA(P(9)), DocB(P(6))>>, <<DocBad(P(6)), DocA(P(3))>>,
               <<DocB(P(3)), DocC(P(6)), DocB(P(9))>>, <<>> >>
      [] backend = "keyword" ->
            << <<DocB(P(9)), DocC(P(3))>>, <<DocC(0)>>,
               <<DocA(P(6)), DocA(P(3))>>, <<>> >>
      [] OTHER ->
            << <<DocA(P(9)), DocB(P(6)), DocC(P(6))>>, <<DocB(P(9))>>,
               <<DocA(P(3))>>, <<>> >>

Answers(backend) ==
    LET all == AllAnswers(backend)
        n == Min2(Len(all), IF env.rich THEN MaxAnswers + 1 ELSE MaxAnswers - 1)
    IN  {all[i] : i \in 1..n}

\* what an awaited backend call ends with: it returns a list, or an exception
\* is raised, by the call or by the loop over its answer after list was read
Outcomes(backend) ==
    {[raised |-> r, list |-> l] : r \in BOOLEAN, l \in Answers(backend)}

\* ------------------------------------------------------ MultiQueryExpander
\* Atoms gloss the source's words: "how" 如何, "how2" 怎么, "how3" 怎样,
\* "why" 为什么, "what" 什么, "install" 安装, "configure" 配置, "setup" 设置,
\* "deploy" 部署, "build" 搭建, "use" 使用, "define" 定义, ...
ExpansionStrategies == {"synonyms", "paraphrase", "concept", "question", "hybrid"}

ContainsAny(s, atoms) == \E i \in DOMAIN s : s[i] \in atoms

QuestionWords == {"how", "how2", "how3", "why", "what", "where"}

ExpanderAnalyzeQueryType(query) ==
    LET q == Lower(query)
    IN  IF ContainsAny(q, QuestionWords) THEN "question"
        ELSE IF ContainsAny(q, {"install", "configure", "setup", "deploy", "run", "start"})
        THEN "instruction"
        ELSE IF Contains(q, <<"is", "what">>)
                \/ ContainsAny(q, {"define", "concept", "principle", "mechanism"})
        THEN "conceptual"
        ELSE "factual"

\* str.replace(word, by) for a one-atom word
Replace(s, word, by) ==
    Flatten([i \in DOMAIN s |-> IF s[i] = word THEN by ELSE <<s[i]>>])

\* the entries of synonym_dict whose key occurs in a modelled query, in
\* dict order
SynonymDict ==
    << [word |-> "python", to |-> << <<"python", "programming">>, <<"python", "dev">>,
                                     <<"python", "language">> >>],
       [word |-> "install", to |-> << <<"configure">>, <<"setup">>, <<"deploy">>,
                                      <<"build">> >>],
       [word |-> "how", to |-> << <<"how2">>, <<"how3">>, <<"method">>, <<"steps">> >>] >>

ConceptMapping ==
    << [word |-> "python", to |-> << <<"programming", "language">>, <<"dev", "tool">>,
                                     <<"script", "language">> >>],
       [word |-> "deploy", to |-> << <<"release">>, <<"launch">>, <<"ops">>,
                                     <<"configure">> >>] >>

\* for word, alternatives in table: if word in query_lower: for each
\* alternative: the replaced query, when it differs
TableExpansion(table, query, count) ==
    LET q == Lower(query)
        perEntry == [e \in DOMAIN table |->
            IF Contains(q, <<table[e].word>>)
            THEN [k \in DOMAIN table[e].to |-> Replace(q, table[e].word, table[e].to[k])]
            ELSE <<>>]
        all == Flatten(perEntry)
        kept == SelectSeq(all, LAMBDA x : x # q)
    IN  PySlice(kept, count)

SynonymExpansion(query, count) == TableExpansion(SynonymDict, query, count)

ConceptExpansion(query, count) == TableExpansion(ConceptMapping, query, count)

QuestionExpansion(query, count) ==
    PySlice(
        IF ContainsAny(query, {"how", "how2", "why", "what", "where"}) THEN <<>>
        ELSE IF ContainsAny(query, {"install"}) \/ ContainsAny(query, {"configure"})
                \/ ContainsAny(query, {"use"})
        THEN << <<"how">> \o query, <<"how2">> \o query >>
        ELSE <<>>,
        count)

FallbackParaphrase(query, count) ==
    PySlice(
        (IF ContainsAny(query, {"how"})
         THEN << Replace(query, "how", <<"how2">>), Replace(query, "how", <<"how3">>) >>
         ELSE <<>>)
        \o (IF ContainsAny(query, {"why"})
            THEN << Replace(query, "why", <<"reason">>), Replace(query, "why", <<"advantage">>) >>
            ELSE <<>>)
        \o (IF Contains(query, <<"is", "what">>)
            THEN << <<"define">>, <<"concept">> >>
            ELSE <<>>),
        count)

\* whether the strategy reaches _paraphrase_expansion for this query
NeedsParaphrase(query, strategy) ==
    \/ strategy = "paraphrase"
    \/ /\ strategy \notin {"synonyms", "concept", "question"}
       /\ ExpanderAnalyzeQueryType(query) \in {"conceptual", "question"}

\* _paraphrase_expansion: without a client, or when generate raised, the
\* fallback rules; else the parsed lines of the answer
ParaphraseExpansion(query, count, hasLLM, llm) ==
    IF ~hasLLM \/ llm.raised THEN FallbackParaphrase(query, count)
    ELSE PySlice(llm.list, count)

HybridExpansion(query, count, paraphrase) ==
    LET t == ExpanderAnalyzeQueryType(query)
    IN  PySlice(
          CASE t = "factual" -> SynonymExpansion(query, count) \o ConceptExpansion(query, count)
            [] t = "conceptual" -> ConceptExpansion(query, count) \o paraphrase
            [] t = "question" -> paraphrase \o SynonymExpansion(query, count)
            [] OTHER -> QuestionExpansion(query, count) \o SynonymExpansion(query, count),
          count)

RECURSIVE StripLeft(_)
StripLeft(s) == IF s # <<>> /\ IsBlank(Head(s)) THEN StripLeft(Tail(s)) ELSE s

RECURSIVE StripRight(_)
StripRight(s) ==
    IF s # <<>> /\ IsBlank(s[Len(s)]) THEN StripRight(SubSeq(s, 1, Len(s) - 1)) ELSE s

Normalized(q) == StripRight(StripLeft(Lower(q)))

RECURSIVE DeduplicateQueriesAcc(_, _, _)
DeduplicateQueriesAcc(seen, acc, rest) ==
    IF rest = <<>> THEN acc
    ELSE IF Normalized(Head(rest)) \in seen
         THEN DeduplicateQueriesAcc(seen, acc, Tail(rest))
         ELSE DeduplicateQueriesAcc(seen \cup {Normalized(Head(rest))},
                                    Append(acc, Head(rest)), Tail(rest))

\* variant: the queries are compared as written
DeduplicateQueriesAsWritten(queries) ==
    LET kept[i \in 0..Len(queries)] ==
            IF i = 0 THEN <<>>
            ELSE IF \E j \in 1..(i - 1) : queries[j] = queries[i] THEN kept[i - 1]
            ELSE Append(kept[i - 1], queries[i])
    IN  kept[Len(queries)]

DeduplicateQueries(queries) == DeduplicateQueriesAcc({}, <<>>, queries)

\* expand_query, given the paraphrases when the strategy asked for them
ExpandQuery(query, strategy, count, paraphrase) ==
    LET expansions ==
            CASE strategy = "synonyms" -> SynonymExpansion(query, count)
              [] strategy = "paraphrase" -> paraphrase
              [] strategy = "concept" -> ConceptExpansion(query, count)
              [] strategy = "question" -> QuestionExpansion(query, count)
              [] OTHER -> HybridExpansion(query, count, paraphrase)
    IN  PySlice(DeduplicateQueries(<<query>> \o expansions), count + 1)

\* ----------------------------------------------------------- MetadataFilter
\* quality_score >= 0.7 raises TypeError when quality_score is a string
HighQualityRaises(documents) ==
    \E i \in DOMAIN documents : documents[i].meta.quality_score = NotANumber

FilterHighQuality(documents) ==
    SelectSeq(documents, LAMBDA d :
        (IF d.meta.quality_score = Absent THEN (5 * Scale) \div 10
         ELSE d.meta.quality_score) >= (7 * Scale) \div 10)

FilterOfficialSources(documents) ==
    SelectSeq(documents, LAMBDA d :
        d.meta.source_type \in {"official_doc", "documentation", "api_doc"})

FilterCodeDocuments(documents) ==
    SelectSeq(documents, LAMBDA d : ContainsAny(d.content, {"<fence>", "<code>"}))

\* the documents carry no title; "jiaocheng" and "buzhou" are the CJK keywords
FilterTutorialDocuments(documents) ==
    SelectSeq(documents, LAMBDA d :
        \/ ContainsAny(Lower(d.content), {"jiaocheng", "tutorial", "guide", "buzhou"})
        \/ Contains(Lower(d.content), <<"how", " ", "to">>))

\* self.predefined_filters[filter_name](filtered_docs); an unknown name is
\* skipped with a warning.  recent_docs, exclude_archived, include_images and
\* exclude_images read metadata keys that these documents do not carry.
ApplyPredefined(name, documents) ==
    CASE name = "high_quality" -> FilterHighQuality(documents)
      [] name = "official_sources" -> FilterOfficialSources(documents)
      [] name = "code_docs" -> FilterCodeDocuments(documents)
      [] name = "tutorial_docs" -> FilterTutorialDocuments(documents)
      [] OTHER -> documents

PredefinedRaises(name, documents) ==
    name = "high_quality" /\ HighQualityRaises(documents)

\* _get_nested_field: the value at the path, None when a key is missing (also
\* for a path through a value that is no dict, such as "tags.first")
GetNestedField(meta, field) ==
    CASE field = "quality_score" ->
            IF meta.quality_score = Absent THEN PyNone
            ELSE IF meta.quality_score = NotANumber THEN PyStr(<<"high">>)
            ELSE PyNum(meta.quality_score)
      [] field = "source_quality" ->
            IF meta.source_quality = Absent THEN PyNone
            ELSE IF meta.source_quality = NotANumber THEN PyStr(<<"high">>)
            ELSE PyNum(meta.source_quality)
      [] field = "source_type" ->
            IF meta.source_type = "" THEN PyNone ELSE PyStr(<<meta.source_type>>)
      [] field = "created_at" ->
            IF meta.created THEN PyStr(<<"2024-06-01">>) ELSE PyNone
      [] field = "tags" -> meta.tags
      [] OTHER -> PyNone

\* float(s) of a string: these parse, every other string raises ValueError
IsNumeric(s) == s \in {<<"0.9">>, <<"0.5">>}

ParseFloat(s) == IF s = <<"0.9">> THEN (9 * Scale) \div 10 ELSE (5 * Scale) \div 10

\* what _compare_values compares after float() of the strings
AsNumber(x) == IF x.t = "str" /\ IsNumeric(x.v) THEN PyNum(ParseFloat(x.v)) ELSE x

\* _compare_values: ValueError (a string that is no number) and TypeError (None,
\* a list or a dict against a number) are caught: False
CompareValues(field_value, condition_value, operator) ==
    LET a == AsNumber(field_value)
        b == AsNumber(condition_value)
    IN  IF a.t # "num" \/ b.t # "num" THEN FALSE
        ELSE CASE operator = "gt" -> a.v > b.v
               [] operator = "lt" -> a.v < b.v
               [] operator = "gte" -> a.v >= b.v
               [] operator = "lte" -> a.v <= b.v
               [] OTHER -> FALSE

\* datetime.fromisoformat: these parse (to a day number), others raise
IsIsoDate(s) == s \in {<<"2024-01-01">>, <<"2024-06-01">>, <<"2024-12-31">>}

ParseDate(s) ==
    CASE s = <<"2024-01-01">> -> 1
      [] s = <<"2024-06-01">> -> 153
      [] OTHER -> 366

\* "start" in date_range, for a dict, a string and a list; None and a number
\* raise TypeError
HasKey(date_range, key) ==
    CASE date_range.t = "dict" -> date_range.v[key] # <<>>
      [] date_range.t = "str" -> Contains(date_range.v, <<key>>)
      [] date_range.t = "list" -> PyIn(PyStr(<<key>>), date_range.v)
      [] OTHER -> FALSE

\* date_range["start"] is a date that parses; a string or a list has no such item
BoundOk(date_range, key) ==
    date_range.t = "dict" /\ IsIsoDate(date_range.v[key])

\* _evaluate_date_range: an empty or non-string field value and every exception
\* (an unparsable date, a value that cannot be read as a dict) are False
EvaluateDateRange(field_value, date_range) ==
    IF field_value.t # "str" \/ field_value.v = <<>> THEN FALSE
    ELSE IF ~IsIsoDate(field_value.v) \/ date_range.t \in {"none", "num"} THEN FALSE
    ELSE LET day == ParseDate(field_value.v)
         IN  IF HasKey(date_range, "start") /\ ~BoundOk(date_range, "start") THEN FALSE
             ELSE IF HasKey(date_range, "start") /\ day < ParseDate(date_range.v.start)
                  THEN FALSE
             ELSE IF HasKey(date_range, "end") /\ ~BoundOk(date_range, "end") THEN FALSE
             ELSE IF HasKey(date_range, "end") /\ day > ParseDate(date_range.v.end)
                  THEN FALSE
             ELSE TRUE

\* re.search(pattern, string, re.IGNORECASE): the patterns are literals, or the
\* unbalanced "(" that re.compile rejects with re.error
RegexRaises(pattern) == "(" \in Range(pattern)

RegexSearch(pattern, string) == Contains(Lower(string), Lower(pattern))

\* the body of _evaluate_condition's try block: what it returns, or that it raised
EvaluateBody(field_value, condition) ==
    LET value == condition.value
        bothStr == field_value.t = "str" /\ value.t = "str"
        Return(b) == [raised |-> FALSE, value |-> b]
    IN  CASE condition.operator = "equals" -> Return(PyEq(field_value, value))
          [] condition.operator = "not_equals" -> Return(~PyEq(field_value, value))
          [] condition.operator = "contains" ->
                IF bothStr THEN Return(Contains(Lower(field_value.v), Lower(value.v)))
                ELSE IF field_value.t = "list" THEN Return(PyIn(value, field_value.v))
                ELSE Return(FALSE)
          [] condition.operator = "not_contains" ->
                IF bothStr THEN Return(~Contains(Lower(field_value.v), Lower(value.v)))
                ELSE IF field_value.t = "list" THEN Return(~PyIn(value, field_value.v))
                ELSE Return(TRUE)
          [] condition.operator \in {"gt", "lt", "gte", "lte"} ->
                Return(CompareValues(field_value, value, condition.operator))
          [] condition.operator = "in" ->
                IF value.t = "list" THEN Return(PyIn(field_value, value.v))
                ELSE Return(FALSE)
          [] condition.operator = "not_in" ->
                IF value.t = "list" THEN Return(~PyIn(field_value, value.v))
                ELSE Return(TRUE)
          [] condition.operator = "exists" -> Return(field_value.t # "none")
          [] condition.operator = "not_exists" -> Return(field_value.t = "none")
          [] condition.operator = "regex" ->
                IF ~bothStr THEN Return(FALSE)
                ELSE IF RegexRaises(value.v) THEN [raised |-> TRUE, value |-> FALSE]
                ELSE Return(RegexSearch(value.v, field_value.v))
          [] condition.operator = "date_range" ->
                Return(EvaluateDateRange(field_value, value))
          [] OTHER -> Return(TRUE)

\* variant: an exception of the body is not caught
EvaluateConditionUncaught(field_value, condition) ==
    EvaluateBody(field_value, condition)

\* _evaluate_condition: [raised, value]; an exception of the body is caught and
\* answered True (the document is not filtered)
EvaluateCondition(field_value, condition) ==
    LET r == EvaluateBody(field_value, condition)
    IN  IF r.raised THEN [raised |-> FALSE, value |-> TRUE] ELSE r

\* variant: the loop starts at the second document
ApplyConditionSkipsFirst(documents, condition) ==
    SelectSeq(SubSeq(documents, 2, Len(documents)), LAMBDA d :
        EvaluateCondition(GetNestedField(d.meta, condition.field), condition).value)

ApplyCondition(documents, condition) ==
    SelectSeq(documents, LAMBDA d :
        EvaluateCondition(GetNestedField(d.meta, condition.field), condition).value)

\* the loop over predefined_filters: the documents left, or that a filter raised
RECURSIVE ApplyAllPredefined(_, _)
ApplyAllPredefined(names, documents) ==
    IF names = <<>> THEN [raised |-> FALSE, documents |-> documents]
    ELSE IF PredefinedRaises(Head(names), documents)
         THEN [raised |-> TRUE, documents |-> documents]
    ELSE ApplyAllPredefined(Tail(names), ApplyPredefined(Head(names), documents))

RECURSIVE ApplyAllConditions(_, _)
ApplyAllConditions(conditions, documents) ==
    IF conditions = <<>> THEN documents
    ELSE ApplyAllConditions(Tail(conditions), ApplyCondition(documents, Head(conditions)))

\* filter_documents; None and [] are both "no filters"; an exception of a filter
\* is caught and the documents are returned as they came
FilterDocuments(documents, conditions, predefined_filters) ==
    LET p == ApplyAllPredefined(predefined_filters, documents)
    IN  IF p.raised THEN documents
        ELSE ApplyAllConditions(conditions, p.documents)

\* --------------------------------------------------------- IntentRecognizer
\* type_keywords in dict order; of each list the keywords that occur in a
\* modelled query: 1 FACTUAL, 2 CONCEPTUAL, 3 PROCEDURAL, 4 COMPARATIVE,
\* 5 TROUBLESHOOTING
QueryTypes == <<"factual", "conceptual", "procedural", "comparative", "troubleshooting">>

TypeKeywords ==
    << { <<"what", "is">>, <<"reason">>, <<"define">>, <<"where">> },
       { <<"explain">>, <<"principle">>, <<"concept">>, <<"define">> },
       { <<"how">>, <<"how2">>, <<"steps">>, <<"method">> },
       { <<"compare">>, <<"difference">> },
       { <<"error">>, <<"problem">>, <<"fix">>, <<"solve">> } >>

TypeScore(query, i) ==
    Cardinality({k \in TypeKeywords[i] : Contains(Lower(query), k)})

\* QueryClassifier.classify: max() keeps the first of equal scores
Classify(query) ==
    LET best == CHOOSE i \in DOMAIN QueryTypes :
                    /\ \A j \in DOMAIN QueryTypes : TypeScore(query, j) <= TypeScore(query, i)
                    /\ \A j \in 1..(i-1) : TypeScore(query, j) < TypeScore(query, i)
    IN  IF TypeScore(query, best) > 0 THEN QueryTypes[best] ELSE "unknown"

\* ComplexityAnalyzer.analyze; the score is kept in halves
ComplexityScore(query) ==
    (IF StrLen(query) > 50 THEN 4 ELSE 0)
    + (IF Len(Split(query)) > 3 THEN 2 ELSE 0)
    + Count(query, "?") * 4
    + Cardinality({c \in {"and", "or", "with"} : Contains(Lower(query), <<c>>)}) * 3

AnalyzeComplexity(query) == IF ComplexityScore(query) >= 6 THEN "complex" ELSE "simple"

\* a profile without a preferred strategy
NoPreferredStrategy == ""

\* UserProfiler._get_default_profile()["preferred_strategy"]: get_profile
\* returns the default profile, or the stored copy of it that nothing writes to
PreferredStrategy == "hybrid"

\* recognize_intent; confidence in tenths
RecognizeIntent(query, has_history) ==
    LET qt == Classify(query)
        cx == AnalyzeComplexity(query)
    IN  [query_type |-> qt, complexity |-> cx,
         confidence |-> Min2(10, 5 + (IF qt # "unknown" THEN 3 ELSE 0)
                                   + (IF cx = "simple" THEN 1 ELSE 2)
                                   + (IF has_history THEN 1 ELSE 0)),
         preferred_strategy |-> PreferredStrategy]

\* ---------------------------------------------------------- StrategyScheduler
\* strategy.parameters: a key the dict lacks is Absent; weights in tenths, the
\* threshold in 1/Scale, a boolean as 1 / 0
NoParams ==
    [top_k |-> Absent, similarity_threshold |-> Absent, vector_weight |-> Absent,
     keyword_weight |-> Absent, enable_expansion |-> Absent, enable_rerank |-> Absent,
     rerank_top_k |-> Absent, priority_keywords |-> {}]

VectorParams(top_k, tenths) ==
    [NoParams EXCEPT !.top_k = top_k, !.similarity_threshold = (tenths * Scale) \div 10]

HybridParams(v, k, top_k) ==
    [NoParams EXCEPT !.vector_weight = v, !.keyword_weight = k, !.top_k = top_k]

EnhancedParams(top_k) ==
    [NoParams EXCEPT !.enable_expansion = 1, !.enable_rerank = 1, !.top_k = top_k]

KeywordParams(top_k, words) ==
    [NoParams EXCEPT !.top_k = top_k, !.priority_keywords = words]

Rule(query_type, complexity, service_type, name, parameters, reasoning) ==
    [query_type |-> query_type, complexity |-> complexity,
     service_type |-> service_type, strategy_name |-> name, parameters |-> parameters,
     reasoning |-> reasoning]

\* StrategyRules.rules; "" in a condition is a key the condition lacks; a
\* reasoning string is the sequence of its parts, the rule's text first
Rules ==
    << Rule("factual", "simple", "vector", "vector", VectorParams(5, 8),
            "simple factual"),
       Rule("factual", "complex", "hybrid", "hybrid", HybridParams(8, 2, 10),
            "complex factual"),
       Rule("conceptual", "simple", "hybrid", "hybrid", HybridParams(7, 3, 8),
            "simple conceptual"),
       Rule("conceptual", "complex", "enhanced", "enhanced", EnhancedParams(15),
            "complex conceptual"),
       Rule("procedural", "simple", "keyword", "keyword",
            KeywordParams(6, {"steps", "method", "how_en"}), "simple procedural"),
       Rule("procedural", "complex", "hybrid", "hybrid", HybridParams(6, 4, 12),
            "complex procedural"),
       Rule("comparative", "", "enhanced", "enhanced", EnhancedParams(20),
            "comparative"),
       Rule("troubleshooting", "simple", "keyword", "keyword",
            KeywordParams(5, {"error", "problem", "solve"}), "simple troubleshooting"),
       Rule("troubleshooting", "complex", "hybrid", "hybrid", HybridParams(5, 5, 15),
            "complex troubleshooting"),
       Rule("", "", "vector", "vector", VectorParams(10, 7), "default rule") >>

MatchCondition(rule, intent) ==
    /\ rule.query_type # "" => intent.query_type = rule.query_type
    /\ rule.complexity # "" => intent.complexity = rule.complexity

Strategy(service_type, name, parameters, reasoning, confidence) ==
    [service_type |-> service_type, strategy_name |-> name,
     parameters |-> parameters, reasoning |-> reasoning, confidence |-> confidence]

\* get_strategy taking the last matching rule
GetStrategyLastMatch(intent) ==
    LET i == CHOOSE i \in DOMAIN Rules :
                /\ MatchCondition(Rules[i], intent)
                /\ \A j \in (i+1)..Len(Rules) : ~MatchCondition(Rules[j], intent)
    IN  Strategy(Rules[i].service_type, Rules[i].strategy_name, Rules[i].parameters,
                 <<Rules[i].reasoning>>, 8)

\* StrategyRules.get_strategy: the first matching rule
GetStrategy(intent) ==
    LET i == CHOOSE i \in DOMAIN Rules :
                /\ MatchCondition(Rules[i], intent)
                /\ \A j \in 1..(i-1) : ~MatchCondition(Rules[j], intent)
    IN  Strategy(Rules[i].service_type, Rules[i].strategy_name, Rules[i].parameters,
                 <<Rules[i].reasoning>>, 8)

\* self.rules after get_strategy handed out rule i's parameters dict and the
\* caller wrote `updated` into the dict it holds: optimize writes into
\* base_strategy.parameters.copy(), get_strategy's direct caller writes nothing
RulesAfter(intent, copied, updated) ==
    LET i == CHOOSE i \in DOMAIN Rules :
                /\ MatchCondition(Rules[i], intent)
                /\ \A j \in 1..(i-1) : ~MatchCondition(Rules[j], intent)
    IN  IF copied THEN Rules ELSE [Rules EXCEPT ![i].parameters = updated]

\* PerformanceMonitor.get_adjustment
GetAdjustment(intent) ==
    IF intent.complexity = "complex"
    THEN [time_constraint |-> "relaxed", quality_priority |-> "high"]
    ELSE IF intent.complexity = "simple"
    THEN [time_constraint |-> "strict", quality_priority |-> "speed"]
    ELSE [time_constraint |-> "normal", quality_priority |-> "balanced"]

\* the markers optimize appends to the reasoning
SpeedMarker == "(speed first)"
QualityMarker == "(quality first)"
PreferenceMarker(preferred_strategy) == <<"(user preference)", preferred_strategy>>

\* optimize without the marker of the user preference
OptimizeUnmarked(base, adjustment, intent) ==
    LET parameters ==
            IF adjustment.time_constraint = "strict"
            THEN [base.parameters EXCEPT !.enable_expansion = 0, !.enable_rerank = 0]
            ELSE IF adjustment.quality_priority = "high"
            THEN [base.parameters EXCEPT !.enable_rerank = 1, !.rerank_top_k = 30]
            ELSE base.parameters
        adjusted ==
            IF adjustment.time_constraint = "strict" THEN <<SpeedMarker>>
            ELSE IF adjustment.quality_priority = "high" THEN <<QualityMarker>>
            ELSE <<>>
        preferred ==
            intent.preferred_strategy # "" /\ intent.preferred_strategy # base.service_type
    IN  Strategy(IF preferred THEN intent.preferred_strategy ELSE base.service_type,
                 base.strategy_name, parameters,
                 base.reasoning \o adjusted, base.confidence)

\* AdaptiveSelector.optimize
Optimize(base, adjustment, intent) ==
    LET parameters ==
            IF adjustment.time_constraint = "strict"
            THEN [base.parameters EXCEPT !.enable_expansion = 0, !.enable_rerank = 0]
            ELSE IF adjustment.quality_priority = "high"
            THEN [base.parameters EXCEPT !.enable_rerank = 1, !.rerank_top_k = 30]
            ELSE base.parameters
        adjusted ==
            IF adjustment.time_constraint = "strict" THEN <<SpeedMarker>>
            ELSE IF adjustment.quality_priority = "high" THEN <<QualityMarker>>
            ELSE <<>>
        preferred ==
            intent.preferred_strategy # "" /\ intent.preferred_strategy # base.service_type
    IN  Strategy(IF preferred THEN intent.preferred_strategy ELSE base.service_type,
                 base.strategy_name, parameters,
                 base.reasoning \o adjusted
                     \o (IF preferred THEN PreferenceMarker(intent.preferred_strategy)
                         ELSE <<>>),
                 base.confidence)

SelectStrategy(intent) == Optimize(GetStrategy(intent), GetAdjustment(intent), intent)

GetStrategyByName(strategy_name) ==
    CASE strategy_name = "hybrid" ->
             Strategy("hybrid", "hybrid", HybridParams(7, 3, 10), <<"forced hybrid">>, 10)
      [] strategy_name = "enhanced" ->
             Strategy("enhanced", "enhanced", EnhancedParams(15), <<"forced enhanced">>, 10)
      [] strategy_name = "keyword" ->
             Strategy("keyword", "keyword", KeywordParams(10, {}), <<"forced keyword">>, 10)
      [] OTHER -> Strategy("vector", "vector", VectorParams(10, 7), <<"forced vector">>, 10)

\* parameters.get(key, default)
ParamOr(value, default) == IF value = Absent THEN default ELSE value

\* ---------------------------------------------------------- RetrievalExecutor
\* _execute_vector_search: the results at or above the threshold
FilterByThreshold(results, similarity_threshold) ==
    SelectSeq(results, LAMBDA r : r.score >= similarity_threshold)

\* _execute_keyword_search: + 0.1 per priority keyword found, capped at 1.0,
\* sorted by the adjusted score, the first top_k
KeywordScored(results, priority_keywords, top_k) ==
    LET scored == [i \in DOMAIN results |->
            LET bonus == Cardinality({k \in priority_keywords :
                                Contains(Lower(results[i].content), <<k>>)}) * (Scale \div 10)
            IN  [results[i] EXCEPT !.score = Min2(Scale, results[i].score + bonus)]]
    IN  PySlice(SortDesc(scored, [i \in DOMAIN scored |-> scored[i].score]), top_k)

\* the dict every _execute_* returns: results, and of strategy_info the
\* service_type and the results_count the path computed
Envelope(results, service_type, results_count) ==
    [results |-> results, service_type |-> service_type, results_count |-> results_count]

\* top_k of the search every fallback requests
FallbackTopK == 5

\* ------------------------------------------------------------ PipelineConfig
DefaultConfig ==
    [enable_query_preprocessing |-> TRUE,
     enable_query_expansion |-> TRUE, expansion_strategy |-> "hybrid", expansion_count |-> 3,
     enable_metadata_filtering |-> TRUE, predefined_filters |-> <<>>, custom_conditions |-> <<>>,
     enable_hybrid_retrieval |-> TRUE, fusion_strategy |-> "weighted_sum",
     retrieval_weights |-> NoWeights,
     enable_reranking |-> TRUE, rerank_strategy |-> "hybrid", rerank_top_k |-> 20,
     max_retrieval_results |-> 50, final_top_k |-> 10, enable_parallel_processing |-> TRUE]

\* PipelineConfig(enable_query_expansion=..., enable_reranking=..., final_top_k=...)
ExecutorConfig(parameters) ==
    [DefaultConfig EXCEPT
        !.enable_query_expansion = (ParamOr(parameters.enable_expansion, 1) = 1),
        !.enable_reranking = (ParamOr(parameters.enable_rerank, 1) = 1),
        !.final_top_k = ParamOr(parameters.top_k, 10)]

\* update_config: the config, and the copies the sub-modules keep
UpdatedPipe(config) ==
    [config |-> config, expansion_count |-> config.expansion_count,
     rerank_strategy |-> config.rerank_strategy]

UpdatedRetriever(r, config) ==
    [weights |-> IF config.retrieval_weights.present
                 THEN [vector |-> config.retrieval_weights.vector,
                       keyword |-> config.retrieval_weights.keyword]
                 ELSE r.weights,
     fusion |-> config.fusion_strategy]

\* ------------------------------------------------------- requests, configs
\* "plain doc"; "Python install" (two words); "how install Python";
\* "how install and configure Python ?"; "error and fix ?"
QDoc == <<"plain", "doc">>

QInstall == <<"Python", " ", "install">>

QHow == <<"how", "install", "Python">>

QHowBoth == <<"how", "install", "and", "configure", "Python", "?">>

QFix == <<"error", "and", "fix", "?">>

\* the configs a request or the /config endpoint passes to update_config;
\* retrieval_weights is any dict of floats the client sent: 0.5 / 0.5 in
\* ConfigRule, 0.6 / 0.6 in ConfigBare
ConfigCE ==
    [DefaultConfig EXCEPT !.expansion_count = 1, !.rerank_strategy = "cross_encoder",
        !.rerank_top_k = 1, !.final_top_k = 1, !.fusion_strategy = "comb_mnz",
        !.predefined_filters = <<"high_quality", "no_such_filter">>]

ConfigRule ==
    [DefaultConfig EXCEPT !.enable_query_expansion = FALSE, !.rerank_strategy = "rule_based",
        !.final_top_k = 2, !.fusion_strategy = "reciprocal_rank",
        !.retrieval_weights = GivenWeights(5, 5), !.enable_parallel_processing = FALSE,
        !.custom_conditions =
            << [field |-> "quality_score", operator |-> "exists", value |-> PyNone] >>]

ConfigBare ==
    [DefaultConfig EXCEPT !.enable_query_preprocessing = FALSE, !.expansion_count = 1,
        !.expansion_strategy = "question", !.enable_metadata_filtering = FALSE,
        !.enable_reranking = FALSE, !.final_top_k = 0, !.fusion_strategy = "borda_count",
        !.retrieval_weights = GivenWeights(6, 6), !.enable_parallel_processing = FALSE]

ConfigOff == [DefaultConfig EXCEPT !.enable_hybrid_retrieval = FALSE]

\* an expansion_count below zero: expand_query returns no query at all
ConfigNone == [DefaultConfig EXCEPT !.expansion_count = 0 - 1]

\* the default "hybrid" rerank strategy over few documents
ConfigHybrid(rerank_top_k) ==
    [DefaultConfig EXCEPT !.enable_query_expansion = FALSE, !.rerank_top_k = rerank_top_k,
        !.final_top_k = 2, !.enable_parallel_processing = FALSE]

AllConfigs == <<ConfigCE, ConfigRule, ConfigBare, ConfigOff, ConfigNone>>

Configs == {AllConfigs[i] : i \in (IF env.rich THEN DOMAIN AllConfigs ELSE {2, 3})}

RerankTopKs == {0, 1}

\* (query, force_strategy, conversation_history is malformed)
SearchRequest(query, force, bad_history) ==
    [query |-> query, force |-> force, bad_history |-> bad_history]

SearchRequests ==
    {SearchRequest(QHowBoth, "", FALSE), SearchRequest(QFix, "", FALSE),
     SearchRequest(QDoc, "enhanced", FALSE)}
    \cup (IF env.rich
          THEN {SearchRequest(QDoc, "", FALSE), SearchRequest(QDoc, "vector", FALSE),
                SearchRequest(QDoc, "keyword", FALSE), SearchRequest(QDoc, "no_such", FALSE),
                SearchRequest(QHow, "", TRUE)}
          ELSE {SearchRequest(QDoc, "vector", TRUE)})

\* (query, a config is given, the config)
PipelineRequest(query, given, config) ==
    [query |-> query, given |-> given, config |-> config]

PipelineRequests ==
    {PipelineRequest(q, TRUE, c) :
        q \in (IF env.rich THEN {QDoc, QInstall, QHow} ELSE {QHow}), c \in Configs}
    \cup (IF env.rich
          THEN {PipelineRequest(QDoc, FALSE, DefaultConfig)}
               \cup {PipelineRequest(QInstall, TRUE, ConfigHybrid(k)) : k \in RerankTopKs}
          ELSE {})
    \cup (IF env.rich /\ ~env.hasKeyword
          THEN {PipelineRequest(QHow, FALSE, DefaultConfig)} ELSE {})

DirectTopKs == IF env.rich THEN {0, 1, 2} ELSE {1}

\* what predict answers for n pairs: n scores, or fewer
ScoreLists(n) ==
    { [i \in 1..n |-> P(2 * i)], [i \in 1..Min2(n, 1) |-> P(8)] }

ScoreOutcomes(n) ==
    {[raised |-> TRUE, list |-> <<>>]} \cup {[raised |-> FALSE, list |-> l] : l \in ScoreLists(n)}

\* what generate answers, parsed into lines
ParaphraseOutcomes(query) ==
    {[raised |-> TRUE, list |-> <<>>],
     [raised |-> FALSE, list |-> << <<"method">> \o query, query >>]}

\* list(query_words): every order the set of query words may iterate in
WordOrders(query) ==
    LET words == Range(Split(Lower(query)))
    IN  {o \in [1..Cardinality(words) -> words] : Range(o) = words}

\* ------------------------------------------------------------ initial state
\* which backends the constructors were given
Backends(vector, keyword, cross_encoder, llm) ==
    [hasVector |-> vector, hasKeyword |-> keyword, hasCE |-> cross_encoder, hasLLM |-> llm]

Env(maxReq, rich, b) ==
    [maxReq |-> maxReq, rich |-> rich, hasVector |-> b.hasVector,
     hasKeyword |-> b.hasKeyword, hasCE |-> b.hasCE, hasLLM |-> b.hasLLM]

AllBackends == Backends(TRUE, TRUE, TRUE, TRUE)

\* one request over varied data and every wiring, or NumTasks concurrent
\* requests over the fully wired services
Envs ==
    {Env(1, TRUE, b) : b \in {AllBackends, Backends(TRUE, FALSE, FALSE, FALSE),
                              Backends(FALSE, TRUE, TRUE, FALSE),
                              Backends(FALSE, FALSE, FALSE, FALSE)}}
    \cup {Env(NumTasks, FALSE, AllBackends)}

StageNames ==
    <<"query_preprocessing", "query_expansion", "hybrid_retrieval",
      "metadata_filtering", "reranking", "post_processing">>

NoIntent == [query_type |-> "", complexity |-> "", confidence |-> 0, preferred_strategy |-> ""]

NoOutcome == [asked |-> FALSE, top_k |-> 0, raised |-> FALSE, list |-> <<>>]

NoResponse == [success |-> FALSE, results |-> <<>>, message |-> <<>>, service_type |-> ""]

\* a request: pc is its position, the rest its local variables; ran, seen,
\* own, collected, down, exec_raised, failed and fallback are history
IdleTask ==
    [pc |-> "idle", kind |-> "", caller |-> "", hung |-> FALSE, faults |-> 0,
     query |-> <<>>, original_query |-> <<>>, top_k |-> 0, final_top_k |-> 0, force |-> "", bad_history |-> FALSE,
     which |-> "", parallel |-> FALSE, slots |-> <<>>,
     expansion_strategy |-> "", rerank_strategy |-> "", rule_results |-> <<>>,
     expanded_queries |-> <<>>, retrieved_documents |-> <<>>, reranked_documents |-> <<>>,
     final_documents |-> <<>>, stage_results |-> [n \in Range(StageNames) |-> ""],
     ran |-> <<>>, seen |-> {}, own |-> DefaultConfig, collected |-> <<>>, down |-> FALSE,
     intent |-> NoIntent, strategy |-> Strategy("", "", NoParams, <<>>, 0),
     result |-> Envelope(<<>>, "", 0), exec_raised |-> FALSE, failed |-> "",
     fallback |-> NoOutcome,
     response |-> NoResponse]

StrategyNames == {"vector", "hybrid", "enhanced", "keyword"}

\* no method has been called directly
NoCall == [op |-> "none"]

Init ==
    /\ env \in Envs
    /\ loop = 0
    /\ tasks = [t \in Tasks |-> IdleTask]
    /\ retr = [exec |-> [weights |-> InitWeights(NoWeights), fusion |-> "weighted_sum"],
               pipe |-> [weights |-> InitWeights(DefaultConfig.retrieval_weights),
                         fusion |-> DefaultConfig.fusion_strategy]]
    /\ pipe = UpdatedPipe(DefaultConfig)
    /\ pipeline_stats = [total_queries |-> 0, successful_queries |-> 0, failed_queries |-> 0]
    /\ stats = [total_queries |-> 0, successful_queries |-> 0, failed_queries |-> 0,
                strategy_usage |-> [n \in StrategyNames |-> 0],
                intent_distribution |-> [n \in Range(QueryTypes) \cup {"unknown"} |-> 0]]
    /\ updates = [started |-> 0, config |-> 0]
    /\ call = NoCall

\* ------------------------------------------------------------- scheduling
Set(t, r) == tasks' = [tasks EXCEPT ![t] = r]

\* a new request is accepted while no task holds the event loop
CanStart(t) ==
    /\ loop = 0
    /\ tasks[t].pc = "idle"
    /\ updates.started < env.maxReq
    /\ \A u \in 1..(t - 1) : tasks[u].pc # "idle"

\* task t runs: it holds the loop from its last resumption
Running(t, pc) == loop = t /\ tasks[t].pc = pc

\* task t is suspended at pc and the loop is free to resume it
Suspended(t, pc) == loop = 0 /\ tasks[t].pc = pc /\ ~tasks[t].hung

\* the caller of HybridRetriever.retrieve continues as soon as it returns,
\* except under asyncio.gather, which resumes its caller in a later turn
ContinuesInline(t) == ~(tasks[t].pc = "retrieving" /\ tasks[t].parallel)

\* ------------------------------------------------ HybridRetriever.retrieve
Slot(query, top_k, st, vec, kw) ==
    [query |-> query, top_k |-> top_k, st |-> st, vec |-> vec, vres |-> <<>>,
     kw |-> kw, kres |-> <<>>, out |-> <<>>, branch |-> "", used |-> DefaultWeights,
     fusion |-> ""]

\* retrieve up to its first suspension: the gather of the searches, or with
\* no service at all _fallback_search, which returns [] at once
BeginRetrieve(query, top_k) ==
    IF ~env.hasVector /\ ~env.hasKeyword
    THEN Slot(query, top_k, "done", "none", "none")
    ELSE Slot(query, top_k, "searching",
              IF env.hasVector THEN "wait" ELSE "none",
              IF env.hasKeyword THEN "wait" ELSE "none")

\* variant: the results wrapped before the exception are returned
VectorSearchPartial(o) == WrapAll(o.list, "vector")

\* _vector_search: the wrapped results, [] when anything raised
VectorSearch(o) == IF o.raised THEN <<>> ELSE WrapAll(o.list, "vector")

\* _keyword_search: the wrapped results, [] when anything raised
KeywordSearch(o) == IF o.raised THEN <<>> ELSE WrapAll(o.list, "keyword")

\* _vector_search after vector_service.hybrid_search answered
VectorRespond(t, i, o) ==
    /\ loop = 0 /\ ~tasks[t].hung
    /\ i \in DOMAIN tasks[t].slots
    /\ tasks[t].slots[i].st = "searching" /\ tasks[t].slots[i].vec = "wait"
    /\ Set(t, [tasks[t] EXCEPT !.slots[i].vec = IF o.raised THEN "raised" ELSE "got",
                               !.slots[i].vres = VectorSearch(o)])
    /\ UNCHANGED <<call, env, loop, retr, pipe, pipeline_stats, stats, updates>>

\* _keyword_search after keyword_service.search answered
KeywordRespond(t, i, o) ==
    /\ loop = 0 /\ ~tasks[t].hung
    /\ i \in DOMAIN tasks[t].slots
    /\ tasks[t].slots[i].st = "searching" /\ tasks[t].slots[i].kw = "wait"
    /\ Set(t, [tasks[t] EXCEPT !.slots[i].kw = IF o.raised THEN "raised" ELSE "got",
                               !.slots[i].kres = KeywordSearch(o)])
    /\ UNCHANGED <<call, env, loop, retr, pipe, pipeline_stats, stats, updates>>

\* retrieve after the gather: attribution, fusion with the retriever's
\* weights and fusion_strategy as they are now, dedup/sort; a fusion that
\* raises lands in the handler, which awaits _fallback_search
SearchesGathered(t, i) ==
    /\ loop = 0 /\ ~tasks[t].hung
    /\ i \in DOMAIN tasks[t].slots
    /\ LET slot == tasks[t].slots[i]
           search_results == (IF env.hasVector THEN <<slot.vres>> ELSE <<>>)
                             \o (IF env.hasKeyword THEN <<slot.kres>> ELSE <<>>)
           vr == AttributeVector(search_results, env.hasVector)
           kr == AttributeKeyword(search_results, env.hasKeyword)
           r == retr[tasks[t].which]
           raises == FusionBranch(vr, kr) = "merge" /\ MergeRaises(vr, kr, r.fusion)
           done == ~raises \/ ~env.hasVector
       IN  /\ slot.st = "searching" /\ slot.vec # "wait" /\ slot.kw # "wait"
           /\ Set(t, [tasks[t] EXCEPT !.slots[i] =
                        [slot EXCEPT !.st = IF done THEN "done" ELSE "fallback",
                                     !.branch = IF raises THEN "raised" ELSE FusionBranch(vr, kr),
                                     !.used = r.weights, !.fusion = r.fusion,
                                     !.out = IF raises THEN <<>>
                                             ELSE RetrieveResult(vr, kr, r.weights, r.fusion,
                                                                 slot.top_k)]])
           /\ loop' = IF done /\ ContinuesInline(t) THEN t ELSE 0
    /\ UNCHANGED <<call, env, retr, pipe, pipeline_stats, stats, updates>>

\* _fallback_search after vector_service.search_text answered: the answer is
\* wrapped as it came, not deduplicated, sorted or cut
FallbackRespond(t, i, o) ==
    /\ loop = 0 /\ ~tasks[t].hung
    /\ i \in DOMAIN tasks[t].slots
    /\ tasks[t].slots[i].st = "fallback"
    /\ Set(t, [tasks[t] EXCEPT !.slots[i].st = "done",
                  !.slots[i].out = IF o.raised THEN <<>> ELSE WrapAll(o.list, "fallback")])
    /\ loop' = IF ContinuesInline(t) THEN t ELSE 0
    /\ UNCHANGED <<call, env, retr, pipe, pipeline_stats, stats, updates>>

\* a caller invokes HybridRetriever.retrieve(query, kb_ids, top_k)
StartRetrieve(t, query, top_k) ==
    /\ CanStart(t)
    /\ LET slot == BeginRetrieve(query, top_k)
       IN  /\ Set(t, [IdleTask EXCEPT !.pc = "retrieve", !.kind = "retrieve",
                          !.query = query, !.top_k = top_k, !.which = "exec",
                          !.slots = <<slot>>])
           /\ loop' = IF slot.st = "done" THEN t ELSE 0
    /\ updates' = [updates EXCEPT !.started = @ + 1]
    /\ UNCHANGED <<call, env, retr, pipe, pipeline_stats, stats>>

\* ... and receives its list
RetrieveReturn(t) ==
    /\ Running(t, "retrieve")
    /\ tasks[t].slots[1].st = "done"
    /\ Set(t, [tasks[t] EXCEPT !.pc = "done",
                  !.result = Envelope(tasks[t].slots[1].out, "", Len(tasks[t].slots[1].out))])
    /\ loop' = 0
    /\ UNCHANGED <<call, env, retr, pipe, pipeline_stats, stats, updates>>

\* ------------------------------------------ EnhancedRetrievalPipeline.retrieve
\* an exception raised inside the try block of the step; at most MaxFaults
\* per request
Fault(t, f) == f => env.rich /\ tasks[t].faults < MaxFaults

Faults(t, f) == tasks[t].faults + (IF f THEN 1 ELSE 0)

\* the task has run stage name with outcome ("" when its guard skipped it)
Ran(task, name, outcome) ==
    [task EXCEPT !.ran = IF outcome = "" THEN @ ELSE Append(@, name),
                 !.stage_results[name] = outcome,
                 !.seen = @ \cup {pipe.config}]

RECURSIVE DeduplicateDocumentsAcc(_, _)
DeduplicateDocumentsAcc(acc, rest) ==
    IF rest = <<>> THEN acc
    ELSE DeduplicateDocumentsAcc(
            IF Head(rest).id # "" /\ ~HasId(acc, Head(rest).id)
            THEN Append(acc, Head(rest)) ELSE acc,
            Tail(rest))

\* variant: the documents are taken from the last to the first
DeduplicateDocumentsBackwards(documents) ==
    DeduplicateDocumentsAcc(<<>>, [i \in DOMAIN documents |->
                                      documents[Len(documents) + 1 - i]])

\* _deduplicate_documents: the first document of every id
DeduplicateDocuments(documents) == DeduplicateDocumentsAcc(<<>>, documents)

\* variant: nothing is carried over
ConvertToRerankResultsNone(documents) == <<>>

\* _convert_to_rerank_results
\* variant: rerank_score is left at 0
ConvertToRerankResultsUnscored(documents) ==
    [i \in DOMAIN documents |->
        RerankResult(documents[i], 0, documents[i].score, "no_reranking")]

ConvertToRerankResults(documents) ==
    [i \in DOMAIN documents |->
        RerankResult(documents[i], documents[i].score, documents[i].score, "no_reranking")]

\* the dicts _stage_post_processing builds
FinalDocuments(results) ==
    [i \in DOMAIN results |->
        [id |-> results[i].id, content |-> results[i].content,
         score |-> results[i].final_score, meta |-> results[i].meta,
         rerank_reason |-> results[i].rerank_reason,
         original_score |-> results[i].original_score,
         rerank_score |-> results[i].rerank_score]]

\* the POST /query handler, or any caller: update_config(request.config) when
\* a config is given, then retrieve up to its first stage
StartPipeline(t, query, given, config) ==
    /\ CanStart(t)
    /\ pipe' = IF given THEN UpdatedPipe(config) ELSE pipe
    /\ retr' = IF given THEN [retr EXCEPT !.pipe = UpdatedRetriever(@, config)] ELSE retr
    /\ Set(t, [IdleTask EXCEPT !.pc = "query_preprocessing", !.kind = "pipeline",
                  !.caller = "api", !.which = "pipe", !.query = query,
                  !.original_query = query, !.expanded_queries = <<query>>,
                  !.own = pipe'.config])
    /\ loop' = t
    /\ updates' = [updates EXCEPT !.started = @ + 1]
    /\ UNCHANGED <<call, env, pipeline_stats, stats>>

\* the PUT /config handler
UpdateConfig(config) ==
    /\ loop = 0
    /\ ~env.rich /\ updates.config < MaxConfigUpdates
    /\ pipe' = UpdatedPipe(config)
    /\ retr' = [retr EXCEPT !.pipe = UpdatedRetriever(@, config)]
    /\ updates' = [updates EXCEPT !.config = @ + 1]
    /\ UNCHANGED <<call, env, loop, tasks, pipeline_stats, stats>>

\* variant: the stage is entered again
StageQueryPreprocessingAgain(t) ==
    /\ Running(t, "query_preprocessing")
    /\ Set(t, [Ran(tasks[t], "query_preprocessing",
                   IF pipe.config.enable_query_preprocessing THEN "error" ELSE "")
               EXCEPT !.pc = "query_preprocessing"])
    /\ UNCHANGED <<call, env, loop, retr, pipe, pipeline_stats, stats, updates>>

\* stage 1.  preprocess_query(query, user_context) is a call with one
\* argument too many: it raises TypeError every time, the handler keeps query
StageQueryPreprocessing(t) ==
    /\ Running(t, "query_preprocessing")
    /\ Set(t, [Ran(tasks[t], "query_preprocessing",
                   IF pipe.config.enable_query_preprocessing THEN "error" ELSE "")
               EXCEPT !.pc = "query_expansion"])
    /\ UNCHANGED <<call, env, loop, retr, pipe, pipeline_stats, stats, updates>>

\* stage 2, up to llm_client.generate when the strategy paraphrases
StageQueryExpansion(t, f) ==
    /\ Running(t, "query_expansion")
    /\ Fault(t, f)
    /\ LET cfg == pipe.config
           task == tasks[t]
           count == pipe.expansion_count
           awaits == NeedsParaphrase(task.query, cfg.expansion_strategy) /\ env.hasLLM
       IN  IF ~cfg.enable_query_expansion
           THEN /\ Set(t, [Ran(task, "query_expansion", "") EXCEPT !.pc = "hybrid_retrieval"])
                /\ loop' = loop
           ELSE IF f
           THEN /\ Set(t, [Ran(task, "query_expansion", "error") EXCEPT
                              !.pc = "hybrid_retrieval", !.faults = Faults(t, f),
                              !.expanded_queries = <<task.query>>])
                /\ loop' = loop
           ELSE IF awaits
           THEN /\ Set(t, [Ran(task, "query_expansion", "") EXCEPT
                              !.pc = "generate", !.expansion_strategy = cfg.expansion_strategy])
                /\ loop' = 0
           ELSE /\ Set(t, [Ran(task, "query_expansion", "ok") EXCEPT
                              !.pc = "hybrid_retrieval",
                              !.expanded_queries =
                                  ExpandQuery(task.query, cfg.expansion_strategy, count,
                                      ParaphraseExpansion(task.query, count, FALSE,
                                                          [raised |-> TRUE, list |-> <<>>]))])
                /\ loop' = loop
    /\ UNCHANGED <<call, env, retr, pipe, pipeline_stats, stats, updates>>

\* stage 2 after generate answered or raised: the rest of expand_query
GenerateRespond(t, o) ==
    /\ Suspended(t, "generate")
    /\ LET task == tasks[t]
           count == pipe.expansion_count
       IN  Set(t, [Ran(task, "query_expansion", "ok") EXCEPT
                      !.pc = "hybrid_retrieval",
                      !.expanded_queries =
                          ExpandQuery(task.query, task.expansion_strategy, count,
                                      ParaphraseExpansion(task.query, count, TRUE, o))])
    /\ loop' = t
    /\ UNCHANGED <<call, env, retr, pipe, pipeline_stats, stats, updates>>

\* stage 3, up to the first suspension: the gather of one retrieve per query,
\* or the first retrieve of the serial loop; with no query at all the loop is
\* empty and queries[0] raises IndexError
StageHybridRetrieval(t, f) ==
    /\ Running(t, "hybrid_retrieval")
    /\ Fault(t, f)
    /\ LET cfg == pipe.config
           task == tasks[t]
           queries == task.expanded_queries
           parallel == cfg.enable_parallel_processing /\ Len(queries) > 1
           first == BeginRetrieve(queries[1], cfg.max_retrieval_results)
       IN  IF ~cfg.enable_hybrid_retrieval
           THEN /\ Set(t, [Ran(task, "hybrid_retrieval", "") EXCEPT !.pc = "metadata_filtering"])
                /\ loop' = loop
           ELSE IF f \/ queries = <<>>
           THEN /\ Set(t, [Ran(task, "hybrid_retrieval", "error") EXCEPT
                              !.pc = "metadata_filtering", !.faults = Faults(t, f),
                              !.retrieved_documents = <<>>])
                /\ loop' = loop
           ELSE /\ Set(t, [Ran(task, "hybrid_retrieval", "") EXCEPT
                              !.pc = "retrieving", !.parallel = parallel,
                              !.slots = IF parallel
                                        THEN [i \in DOMAIN queries |->
                                                 BeginRetrieve(queries[i],
                                                               cfg.max_retrieval_results)]
                                        ELSE <<first>>])
                /\ loop' = IF parallel \/ first.st # "done" THEN 0 ELSE loop
    /\ UNCHANGED <<call, env, retr, pipe, pipeline_stats, stats, updates>>

\* both searches of the retrieve were started and both raised
BothRaised(slot) == slot.vec = "raised" /\ slot.kw = "raised"

AllDone(slots) == \A i \in DOMAIN slots : slots[i].st = "done"

\* stage 3, serial loop: the retrieve of the next query
RetrieveNextQuery(t) ==
    /\ Running(t, "retrieving")
    /\ LET task == tasks[t]
           next == BeginRetrieve(task.expanded_queries[Len(task.slots) + 1],
                                 pipe.config.max_retrieval_results)
       IN  /\ ~task.parallel /\ AllDone(task.slots)
           /\ Len(task.slots) < Len(task.expanded_queries)
           /\ Set(t, [task EXCEPT !.slots = Append(@, next), !.seen = @ \cup {pipe.config}])
           /\ loop' = IF next.st = "done" THEN loop ELSE 0
    /\ UNCHANGED <<call, env, retr, pipe, pipeline_stats, stats, updates>>

\* stage 3 once every retrieve has returned: extend, _deduplicate_documents
RetrievalCollect(t) ==
    /\ tasks[t].pc = "retrieving" /\ ~tasks[t].hung
    /\ IF tasks[t].parallel THEN loop = 0 ELSE loop = t
    /\ LET task == tasks[t]
           documents == DeduplicateDocuments(
                            Flatten([i \in DOMAIN task.slots |-> task.slots[i].out]))
       IN  /\ AllDone(task.slots) /\ Len(task.slots) = Len(task.expanded_queries)
           /\ Set(t, [Ran(task, "hybrid_retrieval", "ok") EXCEPT
                         !.pc = "metadata_filtering", !.retrieved_documents = documents,
                         !.collected = documents,
                         !.down = \A i \in DOMAIN task.slots : BothRaised(task.slots[i])])
    /\ loop' = t
    /\ UNCHANGED <<call, env, retr, pipe, pipeline_stats, stats, updates>>

\* stage 4
StageMetadataFiltering(t, f) ==
    /\ Running(t, "metadata_filtering")
    /\ Fault(t, f)
    /\ LET cfg == pipe.config
           task == tasks[t]
           documents == task.retrieved_documents
       IN  IF ~(cfg.enable_metadata_filtering /\ documents # <<>>)
           THEN Set(t, [Ran(task, "metadata_filtering", "") EXCEPT !.pc = "reranking"])
           ELSE IF f
           THEN Set(t, [Ran(task, "metadata_filtering", "error") EXCEPT
                           !.pc = "reranking", !.faults = Faults(t, f)])
           ELSE Set(t, [Ran(task, "metadata_filtering", "ok") EXCEPT
                           !.pc = "reranking",
                           !.retrieved_documents =
                               FilterDocuments(documents, cfg.custom_conditions,
                                               cfg.predefined_filters)])
    /\ UNCHANGED <<call, env, loop, retr, pipe, pipeline_stats, stats, updates>>

\* _rule_based_rerank inside rerank: an exception lands in rerank's handler
RuleOrFallback(query, documents, top_k, order) ==
    IF RuleBasedRaises(documents) THEN FallbackRerank(documents, top_k)
    ELSE RuleBasedRerank(query, documents, top_k, order)

\* stage 5, up to cross_encoder_client.predict when the strategy calls it
StageReranking(t, f, order) ==
    /\ Running(t, "reranking")
    /\ Fault(t, f)
    /\ order \in WordOrders(tasks[t].query)
    /\ LET cfg == pipe.config
           task == tasks[t]
           documents == task.retrieved_documents
           top_k == cfg.rerank_top_k
           strategy == pipe.rerank_strategy
           rule_results == RuleBasedRerank(task.query, documents, top_k * 2, order)
           awaits == /\ env.hasCE
                     /\ \/ strategy = "cross_encoder"
                        \/ /\ strategy \notin {"cross_encoder", "rule_based"}
                           /\ ~RuleBasedRaises(documents) /\ rule_results # <<>>
           reranked ==
               CASE strategy = "cross_encoder" \/ strategy = "rule_based" ->
                        RuleOrFallback(task.query, documents, top_k, order)
                 [] OTHER ->
                        IF RuleBasedRaises(documents) THEN FallbackRerank(documents, top_k)
                        ELSE PySlice(rule_results, top_k)
       IN  IF ~(cfg.enable_reranking /\ documents # <<>>)
           THEN /\ Set(t, [Ran(task, "reranking", "") EXCEPT !.pc = "post_processing",
                              !.reranked_documents = ConvertToRerankResults(documents)])
                /\ loop' = loop
           ELSE IF f
           THEN /\ Set(t, [Ran(task, "reranking", "error") EXCEPT
                              !.pc = "post_processing", !.faults = Faults(t, f),
                              !.reranked_documents = ConvertToRerankResults(documents)])
                /\ loop' = loop
           ELSE IF awaits
           THEN /\ Set(t, [Ran(task, "reranking", "") EXCEPT
                              !.pc = "predict", !.rerank_strategy = strategy,
                              !.top_k = top_k,
                              !.rule_results = IF strategy = "cross_encoder" THEN <<>>
                                               ELSE rule_results])
                /\ loop' = 0
           ELSE /\ Set(t, [Ran(task, "reranking", "ok") EXCEPT
                              !.pc = "post_processing", !.top_k = top_k,
                              !.reranked_documents = reranked])
                /\ loop' = loop
    /\ UNCHANGED <<call, env, retr, pipe, pipeline_stats, stats, updates>>

\* the pairs handed to predict
PairCount(task) ==
    IF task.rerank_strategy = "cross_encoder" THEN Len(task.retrieved_documents)
    ELSE Len(PySlice(task.rule_results, task.top_k))

\* stage 5 after predict answered or raised
PredictRespond(t, o, order) ==
    /\ Suspended(t, "predict")
    /\ order \in WordOrders(tasks[t].query)
    /\ o \in ScoreOutcomes(PairCount(tasks[t]))
    /\ LET task == tasks[t]
           documents == task.retrieved_documents
           reranked ==
               IF task.rerank_strategy = "cross_encoder"
               THEN IF o.raised THEN RuleOrFallback(task.query, documents, task.top_k, order)
                    ELSE CrossEncoderResults(documents, o.list, task.top_k)
               ELSE IF o.raised THEN PySlice(task.rule_results, task.top_k)
                    ELSE PySlice(HybridRescore(task.rule_results, o.list, task.top_k),
                                 task.top_k)
       IN  Set(t, [Ran(task, "reranking", "ok") EXCEPT
                      !.pc = "post_processing", !.reranked_documents = reranked,
                      !.rule_results = <<>>])
    /\ loop' = t
    /\ UNCHANGED <<call, env, retr, pipe, pipeline_stats, stats, updates>>

\* stage 6
StagePostProcessing(t, f) ==
    /\ Running(t, "post_processing")
    /\ Fault(t, f)
    /\ Set(t, [Ran(tasks[t], "post_processing", IF f THEN "error" ELSE "ok") EXCEPT
                  !.pc = "pipeline_return", !.faults = Faults(t, f),
                  !.final_top_k = pipe.config.final_top_k,
                  !.final_documents =
                      IF f THEN <<>>
                      ELSE FinalDocuments(PySlice(tasks[t].reranked_documents,
                                                  pipe.config.final_top_k))])
    /\ UNCHANGED <<call, env, loop, retr, pipe, pipeline_stats, stats, updates>>

\* variant: a call without final documents is not counted as failed
UpdatePipelineStatsLossy(ps, final_documents) ==
    [ps EXCEPT !.total_queries = @ + 1,
               !.successful_queries = IF final_documents # <<>> THEN @ + 1 ELSE @]

\* _update_pipeline_stats
UpdatePipelineStats(ps, final_documents) ==
    [ps EXCEPT !.total_queries = @ + 1,
               !.successful_queries = IF final_documents # <<>> THEN @ + 1 ELSE @,
               !.failed_queries = IF final_documents # <<>> THEN @ ELSE @ + 1]

\* the PipelineResult is built, the statistics are updated, retrieve returns:
\* to the handler, or into _execute_enhanced_search, which wraps the result
PipelineReturn(t) ==
    /\ Running(t, "pipeline_return")
    /\ pipeline_stats' = UpdatePipelineStats(pipeline_stats, tasks[t].final_documents)
    /\ IF tasks[t].caller = "executor"
       THEN /\ Set(t, [tasks[t] EXCEPT !.pc = "finish", !.slots = <<>>,
                          !.result = Envelope(tasks[t].final_documents, "enhanced",
                                             Len(tasks[t].final_documents))])
            /\ loop' = loop
       ELSE /\ Set(t, [tasks[t] EXCEPT !.pc = "done", !.slots = <<>>])
            /\ loop' = 0
    /\ UNCHANGED <<call, env, retr, pipe, stats, updates>>

\* ------------------------------- IntelligentRetrievalService.intelligent_search
\* an exception inside the try block of intelligent_search reaches its handler
Raise(task, step) == [task EXCEPT !.pc = "except", !.failed = step]

\* the call, up to the gather inside recognize_intent
StartSearch(t, request) ==
    /\ CanStart(t)
    /\ Set(t, [IdleTask EXCEPT !.pc = "recognize_intent", !.kind = "search",
                  !.query = request.query, !.force = request.force,
                  !.bad_history = request.bad_history])
    /\ loop' = 0
    /\ updates' = [updates EXCEPT !.started = @ + 1]
    /\ UNCHANGED <<call, env, retr, pipe, pipeline_stats, stats>>

\* step 1 after the gather: ContextAnalyzer raises KeyError on a history item
\* without "query", and the gather passes the exception on
IntentRecognized(t, f) ==
    /\ Suspended(t, "recognize_intent")
    /\ Fault(t, f)
    /\ Set(t, IF f \/ tasks[t].bad_history
              THEN [Raise(tasks[t], "recognize_intent") EXCEPT !.faults = Faults(t, f)]
              ELSE [tasks[t] EXCEPT !.pc = "select_strategy",
                                    !.intent = RecognizeIntent(tasks[t].query, FALSE)])
    /\ loop' = t
    /\ UNCHANGED <<call, env, retr, pipe, pipeline_stats, stats, updates>>

\* step 2: get_strategy_by_name(force_strategy) or select_strategy(intent)
StrategySelected(t, f) ==
    /\ Running(t, "select_strategy")
    /\ Fault(t, f)
    /\ Set(t, IF f
              THEN [Raise(tasks[t], "select_strategy") EXCEPT !.faults = Faults(t, f)]
              ELSE [tasks[t] EXCEPT !.pc = "execute",
                       !.strategy = IF tasks[t].force # ""
                                    THEN GetStrategyByName(tasks[t].force)
                                    ELSE SelectStrategy(tasks[t].intent)])
    /\ UNCHANGED <<call, env, loop, retr, pipe, pipeline_stats, stats, updates>>

\* variant: without a vector service the fallback raises like the other paths
ExecuteFallbackRaises(task) ==
    IF env.hasVector THEN [task EXCEPT !.pc = "fallback_search"]
    ELSE Raise(task, "execute")

\* _execute_fallback_search up to search_text, or [] without a vector service
ExecuteFallback(task) ==
    IF env.hasVector THEN [task EXCEPT !.pc = "fallback_search"]
    ELSE [task EXCEPT !.pc = "finish", !.result = Envelope(<<>>, "fallback", 0)]

\* the executor was given a retriever and a pipeline when any backend exists
HasRetriever == env.hasVector \/ env.hasKeyword

\* step 3: RetrievalExecutor.execute up to its first suspension; an exception
\* inside execute lands in its own handler, which runs the fallback search
Execute(t, f) ==
    /\ Running(t, "execute")
    /\ Fault(t, f)
    /\ LET task == tasks[t]
           kind == task.strategy.service_type
           parameters == task.strategy.parameters
           config == ExecutorConfig(parameters)
           slot == BeginRetrieve(task.query, ParamOr(parameters.top_k, 10))
           next ==
               CASE f -> [ExecuteFallback(task) EXCEPT !.faults = Faults(t, f),
                                                       !.exec_raised = TRUE]
                 [] ~f /\ kind \in {"vector", "keyword"} ->
                        IF env.hasVector THEN [task EXCEPT !.pc = "search_text"]
                        ELSE [ExecuteFallback(task) EXCEPT !.exec_raised = TRUE]
                 [] ~f /\ kind = "hybrid" ->
                        IF HasRetriever
                        THEN [task EXCEPT !.pc = "hybrid_search", !.which = "exec",
                                          !.slots = <<slot>>]
                        ELSE [ExecuteFallback(task) EXCEPT !.exec_raised = TRUE]
                 [] ~f /\ kind = "enhanced" ->
                        IF HasRetriever
                        THEN [task EXCEPT !.pc = "query_preprocessing", !.caller = "executor",
                                 !.which = "pipe", !.original_query = task.query,
                                 !.expanded_queries = <<task.query>>, !.own = config]
                        ELSE [ExecuteFallback(task) EXCEPT !.exec_raised = TRUE]
                 [] OTHER -> ExecuteFallback(task)
           assigns == ~f /\ kind = "hybrid" /\ HasRetriever
           updates_config == ~f /\ kind = "enhanced" /\ HasRetriever
       IN  /\ Set(t, next)
           /\ retr' = IF assigns
                      THEN [retr EXCEPT !.exec.weights =
                               [vector |-> ParamOr(parameters.vector_weight, 7),
                                keyword |-> ParamOr(parameters.keyword_weight, 3)]]
                      ELSE IF updates_config
                      THEN [retr EXCEPT !.pipe = UpdatedRetriever(@, config)]
                      ELSE retr
           /\ pipe' = IF updates_config THEN UpdatedPipe(config) ELSE pipe
           /\ loop' = IF next.pc \in {"search_text", "fallback_search", "hybrid_search"}
                      THEN 0 ELSE loop
    /\ UNCHANGED <<call, env, pipeline_stats, stats, updates>>

\* _execute_vector_search / _execute_keyword_search after search_text
\* answered; when it raised, execute's handler awaits the fallback search
SearchTextRespond(t, o) ==
    /\ Suspended(t, "search_text")
    /\ LET task == tasks[t]
           parameters == task.strategy.parameters
           top_k == ParamOr(parameters.top_k, 10)
           filtered_results ==
               FilterByThreshold(o.list, ParamOr(parameters.similarity_threshold, P(7)))
           scored_results == KeywordScored(o.list, parameters.priority_keywords, top_k)
       IN  /\ Set(t, IF o.raised THEN [ExecuteFallback(task) EXCEPT !.exec_raised = TRUE]
                     ELSE IF task.strategy.service_type = "vector"
                     THEN [task EXCEPT !.pc = "finish",
                              !.result = Envelope(filtered_results, "vector",
                                                  Len(filtered_results))]
                     ELSE [task EXCEPT !.pc = "finish",
                              !.result = Envelope(scored_results, "keyword",
                                                  Len(scored_results))])
           /\ loop' = IF o.raised THEN 0 ELSE t
    /\ UNCHANGED <<call, env, retr, pipe, pipeline_stats, stats, updates>>

\* _execute_fallback_search after search_text(query, kb_ids, 5) answered
FallbackSearchRespond(t, o) ==
    /\ Suspended(t, "fallback_search")
    /\ Set(t, [tasks[t] EXCEPT !.pc = "finish",
                  !.result = IF o.raised THEN Envelope(<<>>, "fallback", 0)
                             ELSE Envelope(o.list, "fallback", Len(o.list))])
    /\ loop' = t
    /\ UNCHANGED <<call, env, retr, pipe, pipeline_stats, stats, updates>>

\* _execute_hybrid_search after retrieve returned
HybridSearchReturn(t) ==
    /\ Running(t, "hybrid_search")
    /\ tasks[t].slots[1].st = "done"
    /\ Set(t, [tasks[t] EXCEPT !.pc = "finish",
                  !.result = Envelope(tasks[t].slots[1].out, "hybrid",
                                      Len(tasks[t].slots[1].out))])
    /\ UNCHANGED <<call, env, loop, retr, pipe, pipeline_stats, stats, updates>>

\* variant: the strategy of a call without results is not counted
UpdateStatsOfResults(st, intent, strategy, result) ==
    [st EXCEPT !.total_queries = @ + 1,
               !.successful_queries = IF result.results # <<>> THEN @ + 1 ELSE @,
               !.failed_queries = IF result.results # <<>> THEN @ ELSE @ + 1,
               !.strategy_usage[strategy.strategy_name] =
                   IF result.results # <<>> THEN @ + 1 ELSE @,
               !.intent_distribution[intent.query_type] = @ + 1]

\* _update_stats
UpdateStats(st, intent, strategy, result) ==
    [st EXCEPT !.total_queries = @ + 1,
               !.successful_queries = IF result.results # <<>> THEN @ + 1 ELSE @,
               !.failed_queries = IF result.results # <<>> THEN @ ELSE @ + 1,
               !.strategy_usage[strategy.strategy_name] = @ + 1,
               !.intent_distribution[intent.query_type] = @ + 1]

\* steps 4 to 7: metrics, _learn_from_query, _update_stats, the response
Finish(t, f) ==
    /\ Running(t, "finish")
    /\ Fault(t, f)
    /\ LET task == tasks[t]
       IN  IF f
           THEN /\ Set(t, [Raise(task, "finish") EXCEPT !.faults = Faults(t, f)])
                /\ UNCHANGED <<loop, stats>>
           ELSE /\ Set(t, [task EXCEPT !.pc = "done",
                              !.response = [success |-> TRUE, results |-> task.result.results,
                                            message |-> <<"search succeeded">>,
                                            service_type |-> task.strategy.service_type]])
                /\ stats' = UpdateStats(stats, task.intent, task.strategy, task.result)
                /\ loop' = 0
    /\ UNCHANGED <<call, env, retr, pipe, pipeline_stats, updates>>

\* variant: the handler answers without the results of its search
FailureResponseBare(task, results) ==
    [success |-> FALSE, results |-> <<>>,
     message |-> <<"search failed: ">> \o <<task.failed>>, service_type |-> "fallback"]

\* the response of the handler: f"... {str(e)}" after a fixed prefix
FailureResponse(task, results) ==
    [success |-> FALSE, results |-> results,
     message |-> <<"search failed: ">> \o <<task.failed>>, service_type |-> "fallback"]

\* the handler, up to search_text(query, kb_ids, 5) of _fallback_search
Except(t) ==
    /\ Running(t, "except")
    /\ IF env.hasVector
       THEN /\ Set(t, [tasks[t] EXCEPT !.pc = "fallback_wait",
                          !.fallback = [NoOutcome EXCEPT !.asked = TRUE,
                                                         !.top_k = FallbackTopK]])
       ELSE /\ Set(t, [tasks[t] EXCEPT !.pc = "done",
                          !.response = FailureResponse(tasks[t], <<>>)])
    /\ loop' = 0
    /\ UNCHANGED <<call, env, retr, pipe, pipeline_stats, stats, updates>>

\* the handler after its search answered or raised
FallbackWaitRespond(t, o) ==
    /\ Suspended(t, "fallback_wait")
    /\ Set(t, [tasks[t] EXCEPT !.pc = "done",
                  !.fallback.raised = o.raised,
                  !.fallback.list = IF o.raised THEN <<>> ELSE o.list,
                  !.response = FailureResponse(tasks[t],
                                               IF o.raised THEN <<>> ELSE o.list)])
    /\ UNCHANGED <<call, env, loop, retr, pipe, pipeline_stats, stats, updates>>

\* ------------------------------------------------------------- the backends
\* the task waits for an answer of a backend
AwaitsBackend(task) ==
    \/ task.pc \in {"generate", "predict", "search_text", "fallback_search", "fallback_wait"}
    \/ /\ task.pc \in {"retrieve", "hybrid_search", "retrieving"}
       /\ ~AllDone(task.slots)

\* a backend that task t waits for never answers; no call carries a timeout
Hang(t) ==
    /\ env.rich
    /\ loop = 0 /\ ~tasks[t].hung
    /\ AwaitsBackend(tasks[t])
    /\ Set(t, [tasks[t] EXCEPT !.hung = TRUE])
    /\ UNCHANGED <<call, env, loop, retr, pipe, pipeline_stats, stats, updates>>

\* --------------------------------------------------------------- the system
\* what task t does once started
Step(t) ==
    \/ \E i \in DOMAIN tasks[t].slots, o \in Outcomes("vector") : VectorRespond(t, i, o)
    \/ \E i \in DOMAIN tasks[t].slots, o \in Outcomes("keyword") : KeywordRespond(t, i, o)
    \/ \E i \in DOMAIN tasks[t].slots : SearchesGathered(t, i)
    \/ \E i \in DOMAIN tasks[t].slots, o \in Outcomes("vector") : FallbackRespond(t, i, o)
    \/ RetrieveReturn(t)
    \/ StageQueryPreprocessing(t)
    \/ \E f \in BOOLEAN : StageQueryExpansion(t, f)
    \/ \E o \in ParaphraseOutcomes(tasks[t].query) : GenerateRespond(t, o)
    \/ \E f \in BOOLEAN : StageHybridRetrieval(t, f)
    \/ RetrieveNextQuery(t)
    \/ RetrievalCollect(t)
    \/ \E f \in BOOLEAN : StageMetadataFiltering(t, f)
    \/ \E f \in BOOLEAN, order \in WordOrders(tasks[t].query) : StageReranking(t, f, order)
    \/ \E o \in ScoreOutcomes(PairCount(tasks[t])), order \in WordOrders(tasks[t].query) :
            PredictRespond(t, o, order)
    \/ \E f \in BOOLEAN : StagePostProcessing(t, f)
    \/ PipelineReturn(t)
    \/ \E f \in BOOLEAN : IntentRecognized(t, f)
    \/ \E f \in BOOLEAN : StrategySelected(t, f)
    \/ \E f \in BOOLEAN : Execute(t, f)
    \/ \E o \in Outcomes("text") : SearchTextRespond(t, o)
    \/ \E o \in Outcomes("text") : FallbackSearchRespond(t, o)
    \/ HybridSearchReturn(t)
    \/ \E f \in BOOLEAN : Finish(t, f)
    \/ Except(t)
    \/ \E o \in Outcomes("text") : FallbackWaitRespond(t, o)
    \/ Hang(t)

Next ==
    \/ \E t \in Tasks, k \in DirectTopKs : StartRetrieve(t, QDoc, k)
    \/ \E t \in Tasks, r \in PipelineRequests : StartPipeline(t, r.query, r.given, r.config)
    \/ \E t \in Tasks, r \in SearchRequests : StartSearch(t, r)
    \/ \E c \in Configs : UpdateConfig(c)
    \/ \E t \in Tasks : Step(t)

Spec == Init /\ [][Next]_vars

\* ======================================================== direct method calls
\* MetadataFilter, MultiQueryExpander and QueryProcessor keep no state between
\* calls: a call is its arguments and what it returned.
MetaText == [NoMeta EXCEPT !.quality_score = NotANumber]

MetaTagged == [NoMeta EXCEPT !.quality_score = (9 * Scale) \div 10,
                             !.source_type = "blog",
                             !.tags = PyList(<< PyStr(<<"Python">>) >>)]

FilterSamples ==
    {WrapResult(DocA(P(9)), "vector"), WrapResult(DocB(P(6)), "keyword"),
     WrapResult(DocC(P(5)), "vector"),
     WrapResult(Raw("5", <<"plain", "text">>, P(4), MetaText), "vector"),
     WrapResult(Raw("6", <<"how", " ", "to", " ", "install">>, P(3), MetaTagged), "keyword")}

\* documents per call of filter_documents
MaxDocs == 2

DocumentLists == UNION {[1..n -> FilterSamples] : n \in 0..MaxDocs}

Operators ==
    {"equals", "not_equals", "contains", "not_contains", "gt", "lt", "gte", "lte",
     "in", "not_in", "exists", "not_exists", "regex", "date_range", "nearby"}

FieldPaths == {"quality_score", "source_type", "tags", "created_at", "tags.first"}

ConditionValues ==
    {PyNone, PyNum((7 * Scale) \div 10), PyStr(<<"0.5">>), PyStr(<<"official_doc">>),
     PyStr(<<"(">>), PyList(<< PyStr(<<"Python">>), PyStr(<<"blog">>) >>),
     PyRange(<<"2024-01-01">>, <<>>), PyRange(<<"soon">>, <<"2024-12-31">>)}

FilterCondition(field, operator, value) ==
    [field |-> field, operator |-> operator, value |-> value]

Conditions ==
    {FilterCondition(f, o, v) : f \in FieldPaths, o \in Operators, v \in ConditionValues}

PredefinedNames ==
    {"high_quality", "official_sources", "code_docs", "tutorial_docs", "no_such_filter"}

\* the filters of one call: one condition over a number or a list, or up to two
\* bundles with or without a pair of conditions
FilterArguments ==
    {[conditions |-> <<c>>, predefined_filters |-> <<>>] :
        c \in {c \in Conditions :
                /\ c.field \in {"quality_score", "tags"}
                /\ c.value.t \in {"num", "list"} \/ c.value = PyStr(<<"0.5">>)}}
    \cup {[conditions |-> c, predefined_filters |-> n] :
            c \in {<<>>, << FilterCondition("quality_score", "gte", PyStr(<<"0.5">>)),
                            FilterCondition("source_type", "not_equals", PyStr(<<"blog">>)) >>},
            n \in UNION {[1..k -> PredefinedNames] : k \in 0..2}}

\* await metadata_filter.filter_documents(documents, conditions, predefined_filters)
FilterDocumentsCall(documents, a) ==
    /\ call = NoCall
    /\ call' = [op |-> "filter_documents", input |-> documents, documents |-> documents,
                conditions |-> a.conditions, predefined_filters |-> a.predefined_filters,
                raised |-> ApplyAllPredefined(a.predefined_filters, documents).raised,
                result |-> FilterDocuments(documents, a.conditions, a.predefined_filters),
                again |-> FALSE]
    /\ UNCHANGED <<env, loop, tasks, retr, pipe, pipeline_stats, stats, updates>>

\* the same filters over what the call returned
FilterDocumentsAgain ==
    /\ call.op = "filter_documents"
    /\ ~call.again
    /\ call' = [call EXCEPT !.again = TRUE,
                    !.documents = call.result,
                    !.result = FilterDocuments(call.result, call.conditions,
                                               call.predefined_filters)]
    /\ UNCHANGED <<env, loop, tasks, retr, pipe, pipeline_stats, stats, updates>>

\* _apply_condition's step for one document: _get_nested_field, then
\* _evaluate_condition
EvaluateConditionCall(document, condition) ==
    /\ call = NoCall
    /\ LET field_value == GetNestedField(document.meta, condition.field)
           r == EvaluateCondition(field_value, condition)
       IN  call' = [op |-> "evaluate_condition", document |-> document,
                    condition |-> condition, field_value |-> field_value,
                    raised |-> r.raised, result |-> r.value]
    /\ UNCHANGED <<env, loop, tasks, retr, pipe, pipeline_stats, stats, updates>>

\* expansion_count of the expander under call
MaxExpansion == 2

QConcept == <<"Python", "is", "what">>

QPadded == <<" ", "Python", " ", "deploy", " ">>

CallQueries == {QDoc, QInstall, QHow, QHowBoth, QFix, QConcept, QPadded}

\* what the language model may answer: it raises, or its lines repeat the query
\* in another case, padded with blanks, and twice the same
GenerateOutcomes(query) ==
    ParaphraseOutcomes(query)
    \cup {[raised |-> FALSE,
           list |-> << Lower(query), <<"steps">> \o query, <<" ">> \o query,
                       <<"steps">> \o query, <<"method">> \o query >>]}

\* await expander.expand_query(query, strategy=strategy) of an expander built with
\* expansion_count = count, with or without a client
ExpandQueryCall(query, strategy, count, hasLLM, o) ==
    /\ call = NoCall
    /\ call' = [op |-> "expand_query", query |-> query, strategy |-> strategy,
                count |-> count, hasLLM |-> hasLLM, llm |-> o,
                result |-> ExpandQuery(query, strategy, count,
                                       ParaphraseExpansion(query, count, hasLLM, o))]
    /\ UNCHANGED <<env, loop, tasks, retr, pipe, pipeline_stats, stats, updates>>

\* words per query handed to analyze_query_type
MaxWords == 3

QueryWords == {"what", "is", "define", "how", "why", "install", "run", "Python", "doc"}

TypedQueries == UNION {[1..n -> QueryWords] : n \in 0..MaxWords}

\* query_processor.analyze_query_type(query)
AnalyzeQueryTypeCall(query) ==
    /\ call = NoCall
    /\ call' = [op |-> "analyze_query_type", query |-> query,
                result |-> AnalyzeQueryType(query)]
    /\ UNCHANGED <<env, loop, tasks, retr, pipe, pipeline_stats, stats, updates>>

\* the query and the two documents of test_rule_based_rerank, and the query
\* written with a blank
QPhrase == <<"Python", "install">>

RerankScores == {P(7), P(8), P(9)}

RerankLists ==
    UNION {{<< Raw("1", <<"Python", "install", "tutorial">>, a, NoMeta),
               Raw("2", <<"plain", "doc">>, b, NoMeta) >>,
            << Raw("2", <<"plain", "doc">>, b, NoMeta),
               Raw("1", <<"Python", "install", "tutorial">>, a, NoMeta) >>} :
           a \in RerankScores, b \in RerankScores}

\* await Reranker(strategy=RULE_BASED).rerank(query, documents, top_k)
RerankCall(query, documents, top_k, order) ==
    /\ call = NoCall
    /\ order \in WordOrders(query)
    /\ call' = [op |-> "rerank", query |-> query, documents |-> documents,
                top_k |-> top_k,
                result |-> RuleOrFallback(query, documents, top_k, order)]
    /\ UNCHANGED <<env, loop, tasks, retr, pipe, pipeline_stats, stats, updates>>

\* the intents of IntentInfo: every QueryType and Complexity, with no user
\* profile ("") or a profile preferring one of the service types
CallIntents ==
    [query_type : Range(QueryTypes) \cup {"unknown"},
     complexity : {"simple", "complex", "multi_turn"},
     confidence : {8},
     preferred_strategy : {"", "vector", "hybrid", "enhanced", "keyword"}]

\* StrategyRules().get_strategy(intent)
GetStrategyCall(intent) ==
    /\ call = NoCall
    /\ call' = [op |-> "get_strategy", intent |-> intent,
                result |-> GetStrategy(intent),
                rules |-> RulesAfter(intent, FALSE, GetStrategy(intent).parameters)]
    /\ UNCHANGED <<env, loop, tasks, retr, pipe, pipeline_stats, stats, updates>>

\* await StrategyScheduler().select_strategy(intent)
SelectStrategyCall(intent) ==
    /\ call = NoCall
    /\ call' = [op |-> "select_strategy", intent |-> intent,
                base |-> GetStrategy(intent),
                adjustment |-> GetAdjustment(intent),
                result |-> SelectStrategy(intent),
                rules |-> RulesAfter(intent, TRUE, SelectStrategy(intent).parameters)]
    /\ UNCHANGED <<env, loop, tasks, retr, pipe, pipeline_stats, stats, updates>>

\* the result lists handed to a fusion: up to MaxRanked documents each, an id
\* possibly twice in a list as a backend may return it
MaxRanked == 2

RankedLists(source) ==
    UNION {[1..n -> {WrapResult(Raw(id, <<"plain", "doc">>, P(5), NoMeta), source) :
                        id \in {"1", "2", "3"}}] : n \in 0..MaxRanked}

\* self.weights at the call: the default, and those of ConfigRule and ConfigBare
FusionWeights ==
    {InitWeights(NoWeights), [vector |-> 5, keyword |-> 5], [vector |-> 6, keyword |-> 6]}

\* HybridRetriever(..., fusion_strategy=BORDA_COUNT)._borda_count_fusion(vr, kr)
BordaCountFusionCall(vr, kr, w) ==
    /\ call = NoCall
    /\ call' = [op |-> "borda_count_fusion", vector_results |-> vr,
                keyword_results |-> kr, weights |-> w,
                result |-> BordaCountFusion(vr, kr, w)]
    /\ UNCHANGED <<env, loop, tasks, retr, pipe, pipeline_stats, stats, updates>>

CallInit == Init /\ env = Env(1, TRUE, AllBackends)

CallNext ==
    \/ \E d \in DocumentLists, a \in FilterArguments : FilterDocumentsCall(d, a)
    \/ FilterDocumentsAgain
    \/ \E d \in FilterSamples, c \in Conditions : EvaluateConditionCall(d, c)
    \/ \E q \in CallQueries, s \in ExpansionStrategies, n \in 0..MaxExpansion,
            h \in BOOLEAN :
                \E o \in GenerateOutcomes(q) : ExpandQueryCall(q, s, n, h, o)
    \/ \E q \in TypedQueries : AnalyzeQueryTypeCall(q)
    \/ \E vr \in RankedLists("vector"), kr \in RankedLists("keyword"), w \in FusionWeights :
            BordaCountFusionCall(vr, kr, w)
    \/ \E intent \in CallIntents : GetStrategyCall(intent)
    \/ \E intent \in CallIntents : SelectStrategyCall(intent)
    \/ \E q \in {QPhrase, QInstall, QDoc}, d \in RerankLists, k \in {1, 10} :
            \E o \in WordOrders(q) : RerankCall(q, d, k, o)

CallSpec == CallInit /\ [][CallNext]_vars

\* ================================================================ properties
\* a request that has started, and one that has returned to its caller
Started(task) == task.pc # "idle"

Returned(task) == task.pc = "done"

\* the request is a pipeline retrieve, called by the handler or the executor
InPipeline(task) == task.which = "pipe"

\* positions inside EnhancedRetrievalPipeline.retrieve
PipelinePcs ==
    {"query_preprocessing", "query_expansion", "generate", "hybrid_retrieval", "retrieving",
     "metadata_filtering", "reranking", "predict", "post_processing", "pipeline_return"}

\* the pipeline retrieve of the request has built its PipelineResult
PipelineReturned(task) == InPipeline(task) /\ task.pc \notin PipelinePcs \ {"pipeline_return"}

\* the retrieve of the slot has gone past its gather
Gathered(slot) == slot.st # "searching"

Ids(list) == {list[i].id : i \in DOMAIN list}

\* out is results with one entry per id (one of the highest score), sorted by
\* score descending and cut to the top_k best
IsDedupSortedTop(out, results, top_k) ==
    /\ \A i, j \in DOMAIN out : i # j => out[i].id # out[j].id
    /\ \A i \in 1..(Len(out) - 1) : out[i].score >= out[i + 1].score
    /\ Len(out) = Min2(top_k, Cardinality(Ids(results)))
    /\ \A i \in DOMAIN out :
          /\ \E j \in DOMAIN results : out[i] = results[j]
          /\ \A j \in DOMAIN results :
                results[j].id = out[i].id => results[j].score <= out[i].score
    /\ \A j \in DOMAIN results :
          HasId(out, results[j].id) \/ \A i \in DOMAIN out : out[i].score >= results[j].score

\* C3: when the vector search and the keyword search of a retrieve both
\* raised, retrieve has returned [] by its "empty" branch, no exception left it
\* for the handler; and a pipeline retrieve whose retrieves all ended so has
\* run post_processing by the time its result is built and holds no final
\* document.
C3_BothBackendsFail ==
    \A t \in Tasks :
        /\ \A i \in DOMAIN tasks[t].slots :
              LET slot == tasks[t].slots[i]
              IN  Gathered(slot) /\ BothRaised(slot) =>
                      slot.st = "done" /\ slot.branch = "empty" /\ slot.out = <<>>
        /\ tasks[t].down /\ PipelineReturned(tasks[t]) =>
              /\ tasks[t].stage_results["post_processing"] # ""
              /\ tasks[t].final_documents = <<>>

C3_Witness ==
    \E t \in Tasks :
        /\ tasks[t].kind = "pipeline" /\ Returned(tasks[t]) /\ tasks[t].down
        /\ tasks[t].stage_results["post_processing"] = "ok"

\* C4: with both backends configured, when exactly one of the two searches of
\* a retrieve raised, retrieve has returned normally and its list is the
\* other search's results with one entry per id, sorted by score descending
\* and cut to top_k.
C4_OneBackendFails ==
    \A t \in Tasks : \A i \in DOMAIN tasks[t].slots :
        LET slot == tasks[t].slots[i]
        IN  /\ Gathered(slot) /\ slot.vec = "raised" /\ slot.kw = "got" =>
                  /\ slot.st = "done" /\ slot.branch # "raised"
                  /\ IsDedupSortedTop(slot.out, slot.kres, slot.top_k)
            /\ Gathered(slot) /\ slot.vec = "got" /\ slot.kw = "raised" =>
                  /\ slot.st = "done" /\ slot.branch # "raised"
                  /\ IsDedupSortedTop(slot.out, slot.vres, slot.top_k)

C4_Witness ==
    \E t \in Tasks : \E i \in DOMAIN tasks[t].slots :
        LET slot == tasks[t].slots[i]
        IN  /\ Gathered(slot) /\ slot.vec = "got" /\ slot.kw = "raised"
            /\ slot.out # <<>> /\ Len(slot.out) < Len(slot.vres)

\* C1: a failed intelligent_search ends in its handler and returns: the
\* response has success = false and a non-empty message, and its results are
\* the list the handler's search_text call returned, a call made with
\* top_k = 5; they are [] when that call raised or no vector service exists.
C1_SearchNeverPropagates ==
    \A t \in Tasks :
        LET task == tasks[t]
        IN  task.failed # "" =>
                /\ task.kind = "search"
                /\ task.pc \in {"except", "fallback_wait", "done"}
                /\ task.fallback.asked => env.hasVector /\ task.fallback.top_k = 5
                /\ Returned(task) =>
                      /\ task.fallback.asked = env.hasVector
                      /\ task.response.success = FALSE
                      /\ task.response.message # <<>>
                      /\ task.response.results =
                            IF task.fallback.asked /\ ~task.fallback.raised
                            THEN task.fallback.list ELSE <<>>

C1_Witness ==
    \E t \in Tasks :
        /\ tasks[t].failed # "" /\ Returned(tasks[t])
        /\ tasks[t].response.results # <<>>

\* results is documents wrapped one by one, scores passed through
IsWrapped(results, documents) ==
    /\ Len(results) = Len(documents)
    /\ \A i \in DOMAIN results :
          /\ results[i].id = documents[i].id
          /\ results[i].original_score = documents[i].score
          /\ results[i].final_score = documents[i].score
          /\ results[i].rerank_reason = "no_reranking"

\* C2 (amended): a stage that raises is recorded as an error and the pipeline
\* goes on with a stage-specific output: preprocessing keeps the query,
\* expansion yields [query], hybrid retrieval yields no document, metadata
\* filtering keeps its input documents, reranking wraps its input documents
\* unranked, post-processing yields no final document.  Filtering and
\* reranking run only over a non-empty document list, so they are skipped
\* after a failed retrieval; post-processing runs in every call and retrieve
\* returns its PipelineResult.
C2_StageFailureIsolated ==
    \A t \in Tasks :
        LET task == tasks[t]
            sr == task.stage_results
        IN  /\ sr["query_preprocessing"] = "error" => task.query = task.original_query
            /\ sr["query_expansion"] = "error" => task.expanded_queries = <<task.query>>
            /\ sr["hybrid_retrieval"] = "error" =>
                  /\ task.retrieved_documents = <<>>
                  /\ sr["metadata_filtering"] = "" /\ sr["reranking"] = ""
            /\ sr["metadata_filtering"] = "error" =>
                  task.retrieved_documents = task.collected /\ task.collected # <<>>
            /\ sr["reranking"] = "error" =>
                  IsWrapped(task.reranked_documents, task.retrieved_documents)
            /\ sr["post_processing"] = "error" => task.final_documents = <<>>
            /\ PipelineReturned(task) => sr["post_processing"] # ""
            /\ (\E n \in DOMAIN sr : sr[n] = "error") => InPipeline(task)

C2_Witness ==
    \E t \in Tasks :
        /\ PipelineReturned(tasks[t])
        /\ tasks[t].stage_results["reranking"] = "error"
        /\ tasks[t].final_documents # <<>>

\* C2 as stated: the failing stage's input is its output and every later
\* stage runs.  Read on three stages: after a failed post-processing the
\* final documents are the reranked ones, and after a failed retrieval the
\* enabled filtering and reranking stages have run when retrieve returns.
C2_InputForwarded ==
    \A t \in Tasks :
        LET task == tasks[t]
            sr == task.stage_results
        IN  /\ sr["post_processing"] = "error" =>
                  Len(task.final_documents) = Len(task.reranked_documents)
            /\ ( /\ sr["hybrid_retrieval"] = "error"
                 /\ PipelineReturned(task)
                 /\ task.seen = {task.own} ) =>
                  /\ task.own.enable_metadata_filtering => sr["metadata_filtering"] # ""
                  /\ task.own.enable_reranking => sr["reranking"] # ""

\* C9: the list rerank returned holds at most the top_k it was called with,
\* and final_documents holds at most the final_top_k post-processing read
\* (top_k and final_top_k being 0 or more).
C9_TopK ==
    \A t \in Tasks :
        LET task == tasks[t]
        IN  /\ task.stage_results["reranking"] = "ok" =>
                  task.top_k >= 0 /\ Len(task.reranked_documents) <= task.top_k
            /\ task.stage_results["post_processing"] # "" =>
                  task.final_top_k >= 0 /\ Len(task.final_documents) <= task.final_top_k

C9_Witness ==
    \E t \in Tasks :
        /\ tasks[t].stage_results["reranking"] = "ok"
        /\ Len(tasks[t].retrieved_documents) > tasks[t].top_k
        /\ Len(tasks[t].reranked_documents) = tasks[t].top_k
        /\ \E i \in DOMAIN tasks[t].reranked_documents :
              tasks[t].reranked_documents[i].rerank_reason = "hybrid"

\* final_score = 0.3 * original_score + 0.7 * rerank_score
ScoreLaw(final_score, original_score, rerank_score) ==
    final_score = (3 * original_score + 7 * rerank_score) \div 10

\* C10: every RerankResult a request holds, the rule results awaiting the
\* cross-encoder included, and every final document made of one, satisfies
\* final_score = 0.3 * original_score + 0.7 * rerank_score.
C10_ScoreLaw ==
    \A t \in Tasks :
        /\ \A i \in DOMAIN tasks[t].reranked_documents :
              LET r == tasks[t].reranked_documents[i]
              IN  ScoreLaw(r.final_score, r.original_score, r.rerank_score)
        /\ \A i \in DOMAIN tasks[t].rule_results :
              LET r == tasks[t].rule_results[i]
              IN  ScoreLaw(r.final_score, r.original_score, r.rerank_score)
        /\ \A i \in DOMAIN tasks[t].final_documents :
              LET d == tasks[t].final_documents[i]
              IN  ScoreLaw(d.score, d.original_score, d.rerank_score)

C10_Witness ==
    \E t \in Tasks : \E i \in DOMAIN tasks[t].final_documents :
        LET d == tasks[t].final_documents[i]
        IN  d.rerank_reason = "hybrid" /\ d.score # d.original_score

\* C5 as stated: a hybrid request of the executor has fused with the weights
\* of its own strategy, and a pipeline retrieve has read, at every stage and
\* every retrieve, the config it started with.
C5_RequestsIsolated ==
    \A t \in Tasks :
        LET task == tasks[t]
            parameters == task.strategy.parameters
        IN  /\ /\ task.kind = "search" /\ task.which = "exec"
               /\ task.slots # <<>>
               => \/ ~Gathered(task.slots[1])
                  \/ task.slots[1].used =
                        [vector |-> ParamOr(parameters.vector_weight, 7),
                         keyword |-> ParamOr(parameters.keyword_weight, 3)]
            /\ InPipeline(task) => task.seen \subseteq {task.own}

\* the requests whose pipeline retrieve has updated pipeline_stats
PipelineCounted == {t \in Tasks : InPipeline(tasks[t]) /\ tasks[t].pc \notin PipelinePcs}

\* the requests whose intelligent_search has updated stats
SearchCounted ==
    {t \in Tasks : tasks[t].kind = "search" /\ Returned(tasks[t]) /\ tasks[t].failed = ""}

\* C6: total_queries equals the number of calls that have performed their
\* statistics update, and so does successful_queries + failed_queries, for
\* the pipeline's counters and for the service's.
C6_NoLostUpdate ==
    /\ pipeline_stats.total_queries = Cardinality(PipelineCounted)
    /\ pipeline_stats.successful_queries + pipeline_stats.failed_queries
          = Cardinality(PipelineCounted)
    /\ pipeline_stats.successful_queries
          = Cardinality({t \in PipelineCounted : tasks[t].final_documents # <<>>})
    /\ stats.total_queries = Cardinality(SearchCounted)
    /\ stats.successful_queries + stats.failed_queries = Cardinality(SearchCounted)
    /\ stats.successful_queries
          = Cardinality({t \in SearchCounted : tasks[t].result.results # <<>>})

C6_Witness ==
    /\ Cardinality(PipelineCounted) >= 2
    /\ Cardinality(SearchCounted) >= 1
    /\ pipeline_stats.successful_queries >= 1 /\ pipeline_stats.failed_queries >= 1

\* C7 as stated: a call whose backend never responds is cut off by a timeout,
\* so the request that waits for it can always take a further step.
C7_CallsBounded ==
    \A t \in Tasks : tasks[t].hung => ENABLED Step(t)

StageIndex(name) == CHOOSE i \in DOMAIN StageNames : StageNames[i] = name

\* the stages the request has run, in the order it ran them, are in pipeline
\* order, none twice; a returned retrieve has run post_processing last, and
\* under an unchanged config exactly the stages its guards admit
StagesInOrder(task) ==
    /\ \A i, j \in DOMAIN task.ran : i < j => StageIndex(task.ran[i]) < StageIndex(task.ran[j])
    /\ task.ran # <<>> => InPipeline(task)
    /\ PipelineReturned(task) =>
          /\ task.ran # <<>> /\ task.ran[Len(task.ran)] = "post_processing"
          /\ task.seen = {task.own} =>
                LET Has(name) == name \in Range(task.ran)
                IN  /\ Has("query_preprocessing") = task.own.enable_query_preprocessing
                    /\ Has("query_expansion") = task.own.enable_query_expansion
                    /\ Has("hybrid_retrieval") = task.own.enable_hybrid_retrieval
                    /\ Has("metadata_filtering") =
                          (task.own.enable_metadata_filtering /\ task.collected # <<>>)
                    /\ Has("reranking") =
                          (task.own.enable_reranking /\ task.retrieved_documents # <<>>)

\* task t can continue: it holds the event loop, or the loop is free and the
\* backend it waits for answers
Ready(t) ==
    /\ Started(tasks[t]) /\ ~Returned(tasks[t]) /\ ~tasks[t].hung
    /\ loop \in {0, t}

\* a step of task t
Moved(t) == tasks'[t] # tasks[t]

\* the event loop passes over no task that stays ready.  This is weak
\* fairness of the steps of every task, WF_vars(Step(t)), written out with
\* Ready(t) for ENABLED <<Step(t)>>_vars: a started task has a step exactly
\* when it is ready
LiveSpec ==
    Spec /\ \A t \in Tasks : ([]<>(~Ready(t)) \/ []<><<Moved(t)>>_vars)

\* C8: at every moment the stages a pipeline retrieve has run are in the
\* fixed order, none twice, post_processing among them once it returns; and
\* every pipeline retrieve eventually returns its PipelineResult, unless a
\* backend it waits for never answers.
C8_StagesInOrder ==
    /\ [](\A t \in Tasks : StagesInOrder(tasks[t]))
    /\ \A t \in Tasks :
          InPipeline(tasks[t]) ~> (PipelineReturned(tasks[t]) \/ tasks[t].hung)

C8_Witness ==
    \E t \in Tasks :
        /\ tasks[t].kind = "pipeline" /\ Returned(tasks[t])
        /\ tasks[t].ran = StageNames

\* the list is in non-increasing final_score
SortedByFinal(results) ==
    \A i, j \in DOMAIN results : i < j => results[i].final_score >= results[j].final_score

\* C11 as stated: the list rerank returned is sorted in non-increasing
\* final_score under every strategy, the hybrid one after the cross-encoder
\* re-scored the first top_k rule results included.
C11_RerankSorted ==
    \A t \in Tasks :
        tasks[t].stage_results["reranking"] = "ok" =>
            SortedByFinal(tasks[t].reranked_documents)

\* no id twice, in non-increasing fused score, at most top_k entries
IsUniqueSortedTop(out, top_k) ==
    /\ \A i, j \in DOMAIN out : i # j => out[i].id # out[j].id
    /\ \A i, j \in DOMAIN out : i < j => FusedKey(out[i]) >= FusedKey(out[j])
    /\ Len(out) <= top_k

\* the list retrieve hands to _deduplicate_and_sort on its single-backend
\* branches
Deduplicated(slot) ==
    CASE slot.branch = "vector" -> slot.vres
      [] slot.branch = "keyword" -> slot.kres
      [] OTHER -> <<>>

\* of the entries of results with its id, the one in out has the highest score
KeepsHighest(out, results) ==
    \A i \in DOMAIN out : \A j \in DOMAIN results :
        results[j].id = out[i].id => FusedKey(results[j]) <= FusedKey(out[i])

\* C12 as stated: whatever way retrieve returned, its list holds no id twice,
\* is in non-increasing fused score and has at most top_k entries.
C12_RetrieveUniqueSorted ==
    \A t \in Tasks : \A i \in DOMAIN tasks[t].slots :
        LET slot == tasks[t].slots[i]
        IN  slot.st = "done" => IsUniqueSortedTop(slot.out, slot.top_k)

\* C12 (amended): when retrieve returned by its fusion step (branch merge,
\* vector or keyword) or with the empty list, its list holds no id twice, is
\* in non-increasing fused score and has at most top_k entries, and of the
\* repeated entries of a single backend the one of the highest score is kept.
C12_FusedUniqueSorted ==
    \A t \in Tasks : \A i \in DOMAIN tasks[t].slots :
        LET slot == tasks[t].slots[i]
        IN  slot.st = "done" /\ slot.branch # "raised" =>
                /\ IsUniqueSortedTop(slot.out, slot.top_k)
                /\ KeepsHighest(slot.out, Deduplicated(slot))

C12_Witness ==
    \E t \in Tasks : \E i \in DOMAIN tasks[t].slots :
        LET slot == tasks[t].slots[i]
        IN  /\ slot.st = "done" /\ slot.branch = "merge"
            /\ Len(slot.out) = slot.top_k
            /\ \E j \in DOMAIN slot.vres : \E k \in DOMAIN slot.vres :
                  j # k /\ slot.vres[j].id = slot.vres[k].id

\* C13 as stated: of the documents the retrieves of the expanded queries
\* returned for one id, the merged list of the retrieval stage holds one that
\* no other beats, in score or in fused score.
C13_MergeKeepsHighest ==
    \A t \in Tasks :
        LET task == tasks[t]
        IN  task.stage_results["hybrid_retrieval"] = "ok" /\ task.pc # "done" =>
                \A d \in DOMAIN task.collected :
                \A i \in DOMAIN task.slots : \A j \in DOMAIN task.slots[i].out :
                    LET kept == task.collected[d]
                        other == task.slots[i].out[j]
                    IN  other.id = kept.id =>
                            \/ other.score <= kept.score
                            \/ FusedKey(other) <= FusedKey(kept)

\* the intelligent_search calls that have returned a response
SearchReturned == {t \in Tasks : tasks[t].kind = "search" /\ Returned(tasks[t])}

\* C14 as stated: when no intelligent_search call is in flight,
\* total_queries is the number of calls made and successful_queries +
\* failed_queries is that number too, the calls that ended in the
\* success = false response included.
C14_EveryCallCounted ==
    (\A t \in Tasks : tasks[t].kind = "search" => Returned(tasks[t])) =>
        /\ stats.total_queries = Cardinality(SearchReturned)
        /\ stats.successful_queries + stats.failed_queries = Cardinality(SearchReturned)

\* execute has returned to intelligent_search
ExecuteReturned(task) ==
    /\ task.kind = "search"
    /\ \/ task.pc = "finish"
       \/ /\ task.pc \in {"except", "fallback_wait", "done"}
          /\ task.failed \notin {"recognize_intent", "select_strategy"}

ServiceTypes == {"vector", "hybrid", "enhanced", "keyword", "fallback"}

\* C15: no exception leaves execute for the handler of intelligent_search;
\* the value execute returned names a service type and carries results_count
\* = len(results); and when an exception was raised on the dispatched path
\* (an uninitialised service included) the value is the fallback's.
C15_ExecuteNeverRaises ==
    \A t \in Tasks :
        LET task == tasks[t]
        IN  /\ task.failed # "execute"
            /\ ExecuteReturned(task) =>
                  /\ task.result.service_type \in ServiceTypes
                  /\ task.result.results_count = Len(task.result.results)
                  /\ task.exec_raised => task.result.service_type = "fallback"
            /\ task.exec_raised => task.pc \in {"fallback_search"} \/ ExecuteReturned(task)

C15_Witness ==
    \E t \in Tasks :
        /\ ExecuteReturned(tasks[t]) /\ tasks[t].exec_raised
        /\ tasks[t].strategy.service_type = "hybrid"
        /\ tasks[t].result.results = <<>>

\* out is an order-preserving sub-list of input
RECURSIVE IsSubList(_, _)
IsSubList(out, input) ==
    IF out = <<>> THEN TRUE
    ELSE IF input = <<>> THEN FALSE
    ELSE IF Head(out) = Head(input) THEN IsSubList(Tail(out), Tail(input))
    ELSE IsSubList(out, Tail(input))

PositiveOperators ==
    {"equals", "contains", "gt", "lt", "gte", "lte", "in", "exists", "regex", "date_range"}

NegatedOperators == {"not_equals", "not_contains", "not_in", "not_exists"}

\* the metadata has no value at the condition's field path
Missing(field_value) == field_value.t = "none"

\* the field value has a type the operator cannot compare with the condition value
Incomparable(field_value, condition) ==
    LET value == condition.value
        operator == condition.operator
    IN  /\ ~Missing(field_value)
        /\ CASE operator \in {"equals", "not_equals"} -> field_value.t # value.t
             [] operator \in {"contains", "not_contains"} ->
                    ~(field_value.t = "str" /\ value.t = "str") /\ field_value.t # "list"
             [] operator \in {"gt", "lt", "gte", "lte"} ->
                    AsNumber(field_value).t # "num" \/ AsNumber(value).t # "num"
             [] operator \in {"in", "not_in"} -> value.t # "list"
             [] operator = "regex" -> ~(field_value.t = "str" /\ value.t = "str")
             [] operator = "date_range" ->
                    field_value.t # "str" \/ ~IsIsoDate(field_value.v)
             [] OTHER -> FALSE

\* an evaluation of a condition over a missing or incomparable field value
Unanswerable(c) ==
    /\ c.op = "evaluate_condition"
    /\ c.condition.operator \in PositiveOperators \cup NegatedOperators
    /\ Missing(c.field_value) \/ Incomparable(c.field_value, c.condition)

C18_ExpansionBound ==
    call.op = "expand_query" =>
        LET r == call.result
        IN  /\ 1 <= Len(r)
            /\ Len(r) <= call.count + 1
            /\ r[1] = call.query
            /\ \A i, j \in DOMAIN r : i # j => Normalized(r[i]) # Normalized(r[j])

\* the client answered with the query in another case and with a new string:
\* the first was dropped, the second came back
C18_Witness ==
    /\ call.op = "expand_query"
    /\ call.count >= 1
    /\ call.hasLLM /\ ~call.llm.raised
    /\ call.strategy = "paraphrase"
    /\ Lower(call.query) # call.query
    /\ Lower(call.query) \in Range(call.llm.list)
    /\ Lower(call.query) \notin Range(call.result)
    /\ Len(call.result) = 2
    /\ call.count = 2

\* retrieve returned without having run the stage (no entry in stage_results)
Skipped(task, name) == PipelineReturned(task) /\ task.stage_results[name] = ""

\* results is documents, one RerankResult per document in the same order, the
\* three scores being the document's score
IsPassedThrough(results, documents) ==
    /\ Len(results) = Len(documents)
    /\ \A i \in DOMAIN results :
          /\ results[i].id = documents[i].id
          /\ results[i].content = documents[i].content
          /\ results[i].original_score = documents[i].score
          /\ results[i].rerank_score = documents[i].score
          /\ results[i].final_score = documents[i].score
          /\ results[i].rerank_reason = "no_reranking"

\* C19: a stage that is disabled is not run and its input is its output.  With
\* query expansion disabled expanded_queries is [query]; with reranking
\* disabled the reranked documents are the retrieved documents, each wrapped in
\* order into a RerankResult with original_score = rerank_score = final_score =
\* the document's score and the reason 'no_reranking'.
C19_DisabledStagePassesThrough ==
    \A t \in Tasks :
        LET task == tasks[t]
        IN  PipelineReturned(task) =>
              /\ (\A c \in task.seen : ~c.enable_query_expansion) =>
                    Skipped(task, "query_expansion")
              /\ (\A c \in task.seen : ~c.enable_reranking) => Skipped(task, "reranking")
              /\ Skipped(task, "query_expansion") => task.expanded_queries = <<task.query>>
              /\ Skipped(task, "reranking") =>
                    IsPassedThrough(task.reranked_documents, task.retrieved_documents)

\* a request with reranking disabled that retrieved two documents or more
C19_Witness ==
    \E t \in Tasks :
        /\ PipelineReturned(tasks[t])
        /\ \A c \in tasks[t].seen : ~c.enable_reranking
        /\ tasks[t].stage_results["hybrid_retrieval"] = "ok"
        /\ Len(tasks[t].retrieved_documents) >= 2
        /\ Len(tasks[t].reranked_documents) >= 2

\* the classes in their claimed precedence
Precedence == <<"conceptual", "question", "instruction">>

\* C20: analyze_query_type answers the first class of conceptual, question,
\* instruction whose marker occurs in the query, and factual when none does;
\* "how install Python" (a question and an instruction marker) is a question.
C20_Precedence ==
    call.op = "analyze_query_type" =>
        /\ \A i \in DOMAIN Precedence :
              ( /\ HasMarker(call.query, Precedence[i])
                /\ \A j \in 1..(i - 1) : ~HasMarker(call.query, Precedence[j]) )
              => call.result = Precedence[i]
        /\ (\A i \in DOMAIN Precedence : ~HasMarker(call.query, Precedence[i]))
              => call.result = "factual"
        /\ call.query = QHow => call.result = "question"

\* the query of the test, with a question and an instruction marker
C20_Witness ==
    /\ call.op = "analyze_query_type"
    /\ call.query = QHow
    /\ HasMarker(call.query, "question") /\ HasMarker(call.query, "instruction")
    /\ call.result = "question"

\* C21: every document retrieve returned carries a fused_score, also when only
\* one backend is configured or only one backend answered with results.
C21_FusedScorePresent ==
    \A t \in Tasks : \A i \in DOMAIN tasks[t].slots :
        LET slot == tasks[t].slots[i]
        IN  slot.st = "done" => \A d \in DOMAIN slot.out : slot.out[d].hasFused

\* the content holds the whole query as one phrase
ContainsPhrase(query, content) == Contains(Lower(content), Lower(query))

\* the content holds no word of the query
SharesNoToken(query, content) ==
    \A i \in DOMAIN query :
        IsBlank(query[i]) \/ ~ContainsAny(Lower(content), {LowerAtom(query[i])})

\* C22: under the rule-based strategy, of two documents returned, the one that
\* contains the query phrase comes before the one that shares no query token
\* and has the greater rerank_score, also when its original score is lower by
\* up to 0.1 -- as for query "Python install" and documents 1 (0.8) and 2 (0.9).
C22_PhraseOutranks ==
    call.op = "rerank" /\ Len(call.result) = 2 =>
        \A i, j \in DOMAIN call.documents :
            ( /\ ContainsPhrase(call.query, call.documents[i].content)
              /\ SharesNoToken(call.query, call.documents[j].content)
              /\ call.documents[j].score - call.documents[i].score <= Scale \div 10 )
            => /\ call.result[1].id = call.documents[i].id
               /\ call.result[1].rerank_score > call.result[2].rerank_score

\* C23: select_strategy applies the adaptive step to the rule's strategy: a
\* strict time constraint switches enable_expansion and enable_rerank off, a
\* high quality priority switches enable_rerank on with rerank_top_k 30, a
\* preferred strategy other than the rule's service type replaces it, and the
\* reasoning is the rule's text followed by one marker for each override that
\* was applied and none for the others.
C23_AdaptiveStep ==
    call.op = "select_strategy" =>
        LET strict == call.adjustment.time_constraint = "strict"
            high == call.adjustment.quality_priority = "high"
            preferred == /\ call.intent.preferred_strategy # ""
                         /\ call.intent.preferred_strategy # call.base.service_type
            marks(x) == Count(call.result.reasoning, x)
        IN  /\ strict => /\ call.result.parameters.enable_expansion = 0
                         /\ call.result.parameters.enable_rerank = 0
            /\ high => /\ call.result.parameters.enable_rerank = 1
                       /\ call.result.parameters.rerank_top_k = 30
                       /\ call.result.parameters.rerank_top_k > call.result.parameters.top_k
            /\ ~strict /\ ~high => call.result.parameters = call.base.parameters
            /\ call.result.service_type =
                   (IF preferred THEN call.intent.preferred_strategy
                    ELSE call.base.service_type)
            /\ marks(SpeedMarker) = (IF strict THEN 1 ELSE 0)
            /\ marks(QualityMarker) = (IF high THEN 1 ELSE 0)
            /\ marks("(user preference)") = (IF preferred THEN 1 ELSE 0)
            /\ SubSeq(call.result.reasoning, 1, Len(call.base.reasoning))
                   = call.base.reasoning

\* a complex comparative query of a user who prefers hybrid: quality first
\* and the preference both applied
C23_Witness ==
    /\ call.op = "select_strategy"
    /\ call.base.service_type = "enhanced"
    /\ call.result.service_type = "hybrid"
    /\ call.result.parameters.rerank_top_k = 30
    /\ call.result.reasoning =
           <<"comparative", QualityMarker, "(user preference)", "hybrid">>

\* no rule before the last one matches the intent
Unmatched(intent) ==
    \A i \in 1..(Len(Rules) - 1) : ~MatchCondition(Rules[i], intent)

\* C24: get_strategy returns the action of the first rule, in table order,
\* whose condition the intent meets; an intent no specific rule matches gets
\* the default vector search with top_k 10 and similarity_threshold 0.7; the
\* rule table is the same after the selection.
C24_FirstMatchingRule ==
    call.op \in {"get_strategy", "select_strategy"} =>
        LET chosen == IF call.op = "get_strategy" THEN call.result ELSE call.base
        IN  /\ \E i \in DOMAIN Rules :
                   /\ MatchCondition(Rules[i], call.intent)
                   /\ \A j \in 1..(i-1) : ~MatchCondition(Rules[j], call.intent)
                   /\ chosen.service_type = Rules[i].service_type
                   /\ chosen.strategy_name = Rules[i].strategy_name
                   /\ chosen.parameters = Rules[i].parameters
                   /\ chosen.reasoning = <<Rules[i].reasoning>>
            /\ Unmatched(call.intent) =>
                   /\ chosen.service_type = "vector"
                   /\ chosen.parameters.top_k = 10
                   /\ chosen.parameters.similarity_threshold = P(7)
            /\ call.rules = Rules

\* an intent of unknown type gets the default
C24_Witness ==
    /\ call.op = "get_strategy"
    /\ call.intent.query_type = "unknown"
    /\ call.result.service_type = "vector"
    /\ call.result.parameters.top_k = 10
    /\ call.rules = Rules

\* C25: whenever the retriever fuses two result lists, the weights it fuses
\* with sum to 1 (10 tenths): the weights of the constructor, those
\* update_config took from retrieval_weights, those the executor assigned.
C25_WeightsSumToOne ==
    \A t \in Tasks : \A i \in DOMAIN tasks[t].slots :
        LET slot == tasks[t].slots[i]
        IN  slot.branch = "merge" => slot.used.vector + slot.used.keyword = 10

\* the Borda points of a document on one side: N minus its rank, the first
\* position of the list counting as rank `first`; for an id the list repeats,
\* any of its positions; 0 for a document the list lacks
BordaPoints(list, id, N, first) ==
    IF HasId(list, id)
    THEN {(N - (i - 1 + first)) * Scale : i \in {j \in DOMAIN list : list[j].id = id}}
    ELSE {0}

\* fused_score = w_v * pv + w_k * pk, the weights in tenths
IsBordaSum(fused, w, pv, pk) == fused = (w.vector * pv + w.keyword * pk) \div 10

\* C26 as stated: under Borda-count fusion each document's fused score is
\* w_v*(N - rank_v) + w_k*(N - rank_k) with rank the document's 1-based
\* position in each list and N the length of the longer list; a list that
\* lacks the document contributes 0.
C26_BordaOneBased ==
    call.op = "borda_count_fusion" =>
        LET N == Max2(Len(call.vector_results), Len(call.keyword_results))
        IN  \A e \in Range(call.result) :
                \E pv \in BordaPoints(call.vector_results, e.id, N, 1),
                   pk \in BordaPoints(call.keyword_results, e.id, N, 1) :
                    e.hasFused /\ IsBordaSum(e.fused, call.weights, pv, pk)

\* C26: under Borda-count fusion each document's fused score is
\* w_v*(N - rank_v) + w_k*(N - rank_k) with rank the 0-based position of the
\* document (of the last entry with its id) in each list and N the length of
\* the longer list; a list that lacks the document contributes 0.
C26_BordaZeroBased ==
    call.op = "borda_count_fusion" =>
        LET N == Max2(Len(call.vector_results), Len(call.keyword_results))
            last(list, id) == {(N - (LastIdx(list, id) - 1)) * Scale}
            points(list, id) == IF HasId(list, id) THEN last(list, id) ELSE {0}
        IN  \A e \in Range(call.result) :
                \E pv \in points(call.vector_results, e.id),
                   pk \in points(call.keyword_results, e.id) :
                    e.hasFused /\ IsBordaSum(e.fused, call.weights, pv, pk)

\* a document first of two on the vector side and absent from the keyword side
C26_Witness ==
    /\ call.op = "borda_count_fusion"
    /\ Len(call.vector_results) = 2 /\ Len(call.keyword_results) = 1
    /\ call.weights = [vector |-> 7, keyword |-> 3]
    /\ \E e \in Range(call.result) :
           /\ e.id = call.vector_results[1].id
           /\ ~HasId(call.keyword_results, e.id)
           /\ e.fused = (7 * 2 * Scale) \div 10

RECURSIVE SumOver(_, _)
SumOver(f, S) ==
    IF S = {} THEN 0
    ELSE LET x == CHOOSE x \in S : TRUE IN f[x] + SumOver(f, S \ {x})

\* C27: the pipeline's and the service's counters each satisfy total =
\* successful + failed, the successful calls are the counted calls with a
\* non-empty result list and the failed ones those with an empty list, and
\* the service's strategy_usage counts and intent_distribution counts each
\* sum to total_queries.
C27_CountersAddUp ==
    /\ pipeline_stats.total_queries
          = pipeline_stats.successful_queries + pipeline_stats.failed_queries
    /\ stats.total_queries = stats.successful_queries + stats.failed_queries
    /\ pipeline_stats.failed_queries
          = Cardinality({t \in PipelineCounted : tasks[t].final_documents = <<>>})
    /\ pipeline_stats.successful_queries
          = Cardinality(PipelineCounted)
            - Cardinality({t \in PipelineCounted : tasks[t].final_documents = <<>>})
    /\ stats.failed_queries
          = Cardinality({t \in SearchCounted : tasks[t].result.results = <<>>})
    /\ stats.successful_queries
          = Cardinality(SearchCounted)
            - Cardinality({t \in SearchCounted : tasks[t].result.results = <<>>})
    /\ SumOver(stats.strategy_usage, DOMAIN stats.strategy_usage) = stats.total_queries
    /\ SumOver(stats.intent_distribution, DOMAIN stats.intent_distribution)
          = stats.total_queries

\* the service counted a search without results and one with results, the
\* pipeline a retrieve without final documents
C27_Witness ==
    /\ stats.total_queries >= 2
    /\ stats.failed_queries >= 1 /\ stats.successful_queries >= 1
    /\ pipeline_stats.failed_queries >= 1
    /\ \E n \in DOMAIN stats.strategy_usage : stats.strategy_usage[n] >= 1

\* C28: the profile of every user prefers "hybrid", so the strategy that
\* select_strategy gives an unforced search has service_type hybrid whatever
\* rule matched the intent; a search is on the executor's vector / keyword
\* path or its enhanced path only when the request forced a strategy.
C28_UnforcedIsHybrid ==
    \A t \in Tasks :
        LET task == tasks[t]
        IN  task.kind = "search" =>
                /\ task.intent # NoIntent => task.intent.preferred_strategy = "hybrid"
                /\ task.strategy.service_type # "" /\ task.force = ""
                       => task.strategy.service_type = "hybrid"
                /\ task.strategy.service_type \in {"vector", "enhanced", "keyword"}
                       => task.force # ""
                /\ (task.pc = "search_text" \/ task.caller = "executor") => task.force # ""

\* an unforced search of unknown type: the default rule says vector search,
\* the search runs the hybrid retriever
C28_Witness ==
    \E t \in Tasks :
        /\ tasks[t].kind = "search" /\ tasks[t].force = ""
        /\ tasks[t].intent.query_type = "unknown"
        /\ tasks[t].strategy.strategy_name = "vector"
        /\ tasks[t].strategy.service_type = "hybrid"
        /\ tasks[t].pc = "hybrid_search"

\* what retrieve returned for a slot, as a function of the backends' answers
\* to its query and of the retriever's weights and fusion when it fused; the
\* fallback's answer when the fusion raised
SlotReturned(slot) ==
    LET search_results == (IF env.hasVector THEN <<slot.vres>> ELSE <<>>)
                          \o (IF env.hasKeyword THEN <<slot.kres>> ELSE <<>>)
    IN  IF slot.branch = "raised" THEN slot.out
        ELSE RetrieveResult(AttributeVector(search_results, env.hasVector),
                            AttributeKeyword(search_results, env.hasKeyword),
                            slot.used, slot.fusion, slot.top_k)

\* the first document of every id of a list, in the order the ids first occur
FirstOfEachId(list) ==
    LET ids == IdsInOrder(list)
    IN  [i \in DOMAIN ids |-> list[FirstIdx(list, ids[i])]]

\* the hybrid-retrieval stage of the request has collected its documents
Collected(task) == task.stage_results["hybrid_retrieval"] = "ok" /\ task.slots # <<>>

\* C29: the documents the hybrid-retrieval stage returns are the same function
\* of the per-query answers with enable_parallel_processing on as with it off,
\* in whatever order the parallel retrieves complete: the results of the
\* queries in the order of the query list, the first document of every id.
C29_ParallelAsSerial ==
    \A t \in Tasks :
        LET task == tasks[t]
        IN  Collected(task) =>
                /\ Len(task.slots) = Len(task.expanded_queries)
                /\ \A i \in DOMAIN task.slots :
                       task.slots[i].query = task.expanded_queries[i]
                /\ task.collected =
                       FirstOfEachId(Flatten([i \in DOMAIN task.slots |->
                                                 SlotReturned(task.slots[i])]))

\* a parallel stage over two queries whose later query brought a document
\* the first one had not
C29_Witness ==
    \E t \in Tasks :
        /\ Collected(tasks[t]) /\ tasks[t].parallel
        /\ Len(tasks[t].slots) >= 2 /\ Len(tasks[t].collected) >= 2
        /\ tasks[t].slots[1].out # <<>>
        /\ Len(tasks[t].collected) > Len(tasks[t].slots[1].out)

\* C30: retrieve hands each backend's result list to the fusion as that
\* backend's list, whichever backends are configured: what it returns is the
\* result for the vector service's list (none without a vector service) and
\* the keyword service's list (none without a keyword service); with only a
\* keyword service whose search brought results, these results deduplicated,
\* sorted and cut to top_k.
C30_RightBackend ==
    \A t \in Tasks : \A i \in DOMAIN tasks[t].slots :
        LET slot == tasks[t].slots[i]
        IN  slot.st = "done" /\ slot.branch \notin {"", "raised"} =>
                /\ slot.out = RetrieveResult(IF env.hasVector THEN slot.vres ELSE <<>>,
                                             IF env.hasKeyword THEN slot.kres ELSE <<>>,
                                             slot.used, slot.fusion, slot.top_k)
                /\ ~env.hasVector /\ slot.kres # <<>>
                       => slot.out = DeduplicateAndSort(slot.kres, slot.top_k)

====
